---- MODULE Spec2Model ----
(***************************************************************************)
(* A model of pyspextool's batch module (src/src/pyspextool/batch/batch.py):*)
(* process_folder (header ingestion and the fixed/moving classification),  *)
(* write_driver (run segmentation, driver synthesis) and read_driver (the  *)
(* driver parser).                                                         *)
(*                                                                         *)
(* Python strings are modelled as sequences of tokens.  A token is either  *)
(* one of the characters the code inspects (" ", "=", "\t", "#", "-", ",", *)
(* a digit) or a piece of ordinary text that holds none of them.           *)
(***************************************************************************)
EXTENDS Integers, Sequences, FiniteSets, TLC

VARIABLES
    pc,         \* position of the modelled calls: "start", "write", "read",
                \* "done", "raised", or "changed" once the caller has
                \* changed what read_driver returned
    fnum,       \* write_driver: FILE NUMBER column of the calibration records
    calf1,      \* write_driver: start markers of the calibration runs
    calf2,      \* write_driver: end markers of the calibration runs
    cal_sets,   \* write_driver: the text accumulated in cal_sets
    files,      \* process_folder: the exposures of the folder, in glob order
    dp,         \* process_folder: the rows of the returned DataFrame
    driver_file,\* the lines of the driver file on disk
    options,    \* read_driver: the options dictionary passed by the caller
    parameters, \* read_driver: the dictionary returned (empty while none is)
    exc,        \* the exception a call raised ("" while none)
    driver_param, \* write_driver: the dictionary of global values it builds
    folders,    \* the directories that exist on disk, as absolute paths
    args,       \* the arguments of the call: process_folder's folder,
                \* write_driver's data_folder, create_folders and check; then
                \* the dictionary and key the caller's statement addressed
    optional,   \* the module's OBSERVATION_PARAMETERS_OPTIONAL dictionary as it
                \* stands; its list values are objects that can change in place
    batch_parameters, \* the module's BATCH_PARAMETERS dictionary as it stands
    calls       \* batch_reduce: the calls made to the reduction steps, in order

segVars == <<fnum, calf1, calf2, cal_sets>>
folderVars == <<files, dp>>
readVars == <<driver_file, options, parameters, exc>>
writeVars == <<driver_param, folders, args>>
vars == <<pc, segVars, folderVars, readVars, writeVars, optional, batch_parameters,
          calls>>

----------------------------------------------------------------------------
(* Bounds of the model *)

\* largest file number a record carries
MaxFileNumber == 7

\* largest number of science exposures in a folder
MaxScience == 3

----------------------------------------------------------------------------
(* Generic helpers for Python / numpy values *)

Abs(x) == IF x < 0 THEN -x ELSE x

Digit == <<"0", "1", "2", "3", "4", "5", "6", "7", "8", "9">>

\* '{:.0f}'.format(n) for a non-negative integer n: its decimal digits
RECURSIVE FormatInt(_)
FormatInt(n) ==
    IF n < 10 THEN <<Digit[n + 1]>>
    ELSE FormatInt(n \div 10) \o <<Digit[(n % 10) + 1]>>

\* np.roll(a, k) for k = 1 or k = -1: a cyclic shift of the array
Roll(a, k) ==
    [i \in 1..Len(a) |->
        IF k = 1 THEN (IF i = 1 THEN a[Len(a)] ELSE a[i - 1])
                 ELSE (IF i = Len(a) THEN a[1] ELSE a[i + 1])]

\* a[np.where(mask)]: the elements of a at the positions where mask holds
RECURSIVE Where(_, _)
Where(a, mask) ==
    IF Len(a) = 0 THEN <<>>
    ELSE (IF Head(mask) THEN <<Head(a)>> ELSE <<>>) \o Where(Tail(a), Tail(mask))

\* s[:-1]: a Python string without its last character ('' stays '')
DropLast(s) == IF Len(s) = 0 THEN s ELSE SubSeq(s, 1, Len(s) - 1)

\* the ascending enumeration of a set of integers
RECURSIVE Ascending(_)
Ascending(S) ==
    IF S = {} THEN <<>>
    ELSE LET m == CHOOSE x \in S : \A y \in S : x <= y
         IN  <<m>> \o Ascending(S \ {m})

----------------------------------------------------------------------------
(* Python strings and dictionaries *)

\* Python values: a str (its tokens), a bool, an int, a float, a list of
\* floats (by their literals), a dict.  A list is an object: id tells which
\* one, and two values with the same id are references to the same list.
\* The other values of the model are immutable.
Str(s) == [str |-> s]
Bool(b) == [bool |-> b]
PyInt(n) == [int |-> n]
Float(x) == [float |-> x]
ListObject(id, xs) == [list |-> xs, id |-> id]
DictVal(d) == [dict |-> d]

IsStr(v) == DOMAIN v = {"str"}

\* c in s, for one token c
Contains(s, c) == \E i \in 1..Len(s) : s[i] = c

\* s.replace(c, '')
Remove(s, c) == SelectSeq(s, LAMBDA x : x /= c)

\* s.split(sep): the pieces of s between the occurrences of sep
RECURSIVE Split(_, _)
Split(s, sep) ==
    IF ~ Contains(s, sep) THEN <<s>>
    ELSE LET i == CHOOSE k \in 1..Len(s) :
                     s[k] = sep /\ \A j \in 1..(k - 1) : s[j] /= sep
         IN  <<SubSeq(s, 1, i - 1)>> \o Split(SubSeq(s, i + 1, Len(s)), sep)

Whitespace == {" ", "\t", "\n"}

\* s.strip()
RECURSIVE Strip(_)
Strip(s) ==
    IF Len(s) = 0 THEN s
    ELSE IF Head(s) \in Whitespace THEN Strip(Tail(s))
    ELSE IF s[Len(s)] \in Whitespace THEN Strip(SubSeq(s, 1, Len(s) - 1))
    ELSE s

\* s.zfill(n)
RECURSIVE Zfill(_, _)
Zfill(s, n) == IF Len(s) >= n THEN s ELSE Zfill(<<"0">> \o s, n)

\* bool(v): any non-empty str is true
PyBool(v) ==
    IF IsStr(v) THEN v.str /= <<>>
    ELSE IF DOMAIN v = {"bool"} THEN v.bool
    ELSE IF DOMAIN v = {"int"} THEN v.int /= 0
    ELSE TRUE

\* A dictionary is a function from keys to values; a key is a str, held as
\* its token sequence.  Rec(r) is the dictionary written as the record r.
Rec(r) == [k \in {<<f>> : f \in DOMAIN r} |-> r[k[1]]]

\* d.update(e), as a value
Update(d, e) ==
    [k \in (DOMAIN d) \cup (DOMAIN e) |-> IF k \in DOMAIN e THEN e[k] ELSE d[k]]

\* dict(pairs) for a list of [key, value] lists whose values are strs; a
\* later pair overrides an earlier one with the same key
RECURSIVE DictOfPairs(_)
DictOfPairs(pairs) ==
    IF Len(pairs) = 0 THEN <<>>
    ELSE LET last == pairs[Len(pairs)]
         IN  Update(DictOfPairs(SubSeq(pairs, 1, Len(pairs) - 1)),
                    [k \in {last[1]} |-> Str(last[2])])

----------------------------------------------------------------------------
(* Module-level dictionaries *)

OBSERVATION_SET_KEYWORD == "OBS_SET"

BATCH_PARAMETERS ==
    Rec([INSTRUMENT |-> Str(<<"spex">>),
         DATA_FOLDER |-> Str(<<>>),
         CALS_FOLDER |-> Str(<<>>),
         PROC_FOLDER |-> Str(<<>>),
         QA_FOLDER |-> Str(<<>>),
         FLAT_FILE_PREFIX |-> Str(<<"flat">>),
         ARC_FILE_PREFIX |-> Str(<<"arc">>),
         SCIENCE_FILE_PREFIX |-> Str(<<"spc">>),
         SPECTRA_FILE_PREFIX |-> Str(<<"spectra">>),
         COMBINED_FILE_PREFIX |-> Str(<<"combspec">>),
         CALIBRATED_FILE_PREFIX |-> Str(<<"calspec">>),
         STITCHED_FILE_PREFIX |-> Str(<<"stitched">>),
         PROGRAM |-> Str(<<>>),
         OBSERVER |-> Str(<<>>),
         QA_FILE |-> Bool(TRUE),
         QA_PLOT |-> Bool(FALSE),
         PLOT_TYPE |-> Str(<<".pdf">>)])

\* the keys of OBSERVATION_PARAMETERS_REQUIRED, in the order of the dictionary
REQUIRED_KEYS ==
    << <<"MODE">>, <<"TARGET_TYPE">>, <<"TARGET_NAME">>, <<"TARGET_PREFIX">>,
       <<"TARGET_FILES">>, <<"FLAT_FILE">>, <<"WAVECAL_FILE">>, <<"STD_NAME">>,
       <<"STD_PREFIX">>, <<"STD_FILES">> >>

OBSERVATION_PARAMETERS_REQUIRED ==
    Rec([MODE |-> Str(<<"SXD">>),
         TARGET_TYPE |-> Str(<<"fixed", " ", "ps">>),
         TARGET_NAME |-> Str(<<"target">>),
         TARGET_PREFIX |-> Str(<<"spc">>),
         TARGET_FILES |-> Str(<<"1", "-", "2">>),
         FLAT_FILE |-> Str(<<"flat", ".fits">>),
         WAVECAL_FILE |-> Str(<<"wavecal", ".fits">>),
         STD_NAME |-> Str(<<"standard">>),
         STD_PREFIX |-> Str(<<"spc">>),
         STD_FILES |-> Str(<<"1", "-", "2">>)])

OBSERVATION_PARAMETERS_OPTIONAL ==
    Rec([ORDERS |-> Str(<<"3", "-", "9">>),
         REDUCTION_MODE |-> Str(<<"A-B">>),
         NPOSITIONS |-> PyInt(2),
         APERTURE_POSITIONS |-> ListObject("APERTURE_POSITIONS", <<"3.7", "11.2">>),
         APERTURE_METHOD |-> Str(<<"auto">>),
         APERTURE |-> Float("1.5"),
         PSF_RADIUS |-> Float("1.5"),
         BACKGROUND_RADIUS |-> Float("2.5"),
         BACKGROUND_WIDTH |-> PyInt(4),
         SCALE_RANGE |-> ListObject("SCALE_RANGE", <<"1.0", "1.5">>)])

----------------------------------------------------------------------------
(* write_driver: run segmentation *)

\* fnum[np.where(np.abs(fnum-np.roll(fnum,1))>1)]
RunStartsGap2(a) ==
    Where(a, [i \in 1..Len(a) |-> Abs(a[i] - Roll(a, 1)[i]) > 2])
RunStarts(a) ==
    Where(a, [i \in 1..Len(a) |-> Abs(a[i] - Roll(a, 1)[i]) > 1])

\* fnum[np.where(np.abs(fnum-np.roll(fnum,-1))>1)]
RunEnds(a) ==
    Where(a, [i \in 1..Len(a) |-> Abs(a[i] - Roll(a, -1)[i]) > 1])

\* for i in range(len(calf1)): cal_sets+='{:.0f}-{:.0f},'.format(calf1[i],calf2[i])
RECURSIVE CalSetsText(_, _)
CalSetsText(f1, f2) ==
    IF Len(f1) = 0 THEN <<>>
    ELSE FormatInt(Head(f1)) \o <<"-">> \o FormatInt(Head(f2)) \o <<",">>
         \o CalSetsText(Tail(f1), Tail(f2))

\* The FILE NUMBER column of the selected records.  process_folder leaves dp
\* sorted by DATETIME and the instrument numbers its exposures in the order it
\* takes them, so the column ascends; the numbers are distinct.
FileNumberColumns ==
    {Ascending(S) : S \in (SUBSET (1..MaxFileNumber)) \ {{}}}

InitSegment ==
    /\ optional = OBSERVATION_PARAMETERS_OPTIONAL
    /\ batch_parameters = BATCH_PARAMETERS
    /\ calls = <<>>
    /\ pc = "start"
    /\ fnum \in FileNumberColumns
    /\ calf1 = <<>>
    /\ calf2 = <<>>
    /\ cal_sets = <<>>
    /\ files = <<>>
    /\ dp = <<>>
    /\ driver_file = <<>>
    /\ options = <<>>
    /\ parameters = <<>>
    /\ exc = ""
    /\ driver_param = <<>>
    /\ folders = {}
    /\ args = <<>>

\* lines 641-646 of write_driver
Segment ==
    /\ pc = "start"
    /\ calf1' = RunStarts(fnum)
    /\ calf2' = RunEnds(fnum)
    /\ cal_sets' = CalSetsText(RunStarts(fnum), RunEnds(fnum))
    /\ pc' = "done"
    /\ UNCHANGED <<fnum, folderVars, readVars, writeVars, optional, batch_parameters, calls>>

NextSegment == Segment

SpecSegment == InitSegment /\ [][NextSegment]_vars

----------------------------------------------------------------------------
(* Claims on the run segmentation *)

\* the set of file numbers of the input
Input == {fnum[i] : i \in 1..Len(fnum)}

\* the ranges that were emitted, by position
EmittedRange(i) == calf1[i]..calf2[i]

\* the value written on the CAL_SETS line: cal_sets[:-1]
CalSetsValue == DropLast(cal_sets)

\* C1: once the segmentation has run, every input file number lies in exactly
\* one emitted range, and the emitted ranges hold nothing but input numbers.
C1_Partition ==
    pc = "done" =>
        /\ Len(calf1) = Len(calf2)
        /\ \A n \in Input :
              Cardinality({i \in 1..Len(calf1) : n \in EmittedRange(i)}) = 1
        /\ \A i \in 1..Len(calf1) : EmittedRange(i) \subseteq Input

\* C2: every emitted range is internally contiguous (non-empty, and each
\* integer from its start to its end is an input file number) and maximal
\* (a later range starts beyond the end of an earlier one plus 1).
C2_ContiguousMaximal ==
    pc = "done" =>
        /\ Len(calf1) = Len(calf2)
        /\ \A i \in 1..Len(calf1) :
              /\ calf1[i] <= calf2[i]
              /\ EmittedRange(i) \subseteq Input
              /\ (calf1[i] - 1) \notin Input
              /\ (calf2[i] + 1) \notin Input
        /\ \A i, j \in 1..Len(calf1) : i < j => calf1[j] > calf2[i] + 1

\* C2 witness: a segmentation that emitted two ranges, one of them longer
\* than a single file.
C2_Witness ==
    /\ pc = "done"
    /\ Len(calf1) >= 2
    /\ \E i \in 1..Len(calf1) : calf2[i] > calf1[i]

\* C3: a single file number n gives exactly the range (n,n), written "n-n".
C3_Single ==
    (pc = "done" /\ Len(fnum) = 1) =>
        /\ calf1 = <<fnum[1]>>
        /\ calf2 = <<fnum[1]>>
        /\ CalSetsValue = FormatInt(fnum[1]) \o <<"-">> \o FormatInt(fnum[1])

----------------------------------------------------------------------------
(* process_folder: ingestion and the fixed/moving classification *)

MOVING_MAXSEP == 15
MOVING_MAXRATE == 10
ARC_NAME == "arc lamp"
FLAT_NAME == "flat lamp"

\* u.hour: DATETIME is modelled in minutes
MinutesPerHour == 60

\* Time(d).mjd counts days; the model counts the minutes of the day as well
MinutesPerDay == 1440

\* Time('2014-07-01').mjd (line 41)
INSTRUMENT_DATE_SHIFT == 56839

\* OBJECT header values of the science exposures
TargetNames == {"t1", "t2"}

\* BEAM header values
Beams == {"A", "B"}

\* RA/DEC of an exposure, as an offset in arcsec along one great circle: the
\* separations that occur between beam-A exposures are 0, 5, 20 and 25 arcsec
Positions == {0, 5, 25}

\* DATETIME of a science exposure, in minutes into the night: the elapsed
\* times that occur are 4, 5, 9, 31, 35 and 40 minutes.  Exposures are taken
\* one after the other, so no two files carry the same DATETIME.
Times == {0, 5, 9, 40}

\* The header fields of a science exposure that the classification reads.
\* An exposure in beam B is the nod position, away from every beam-A position.
ScienceHeaders ==
    [name : TargetNames, beam : {"A"}, pos : Positions]
    \cup [name : TargetNames, beam : {"B"}, pos : {12}]

\* kind says whether the file name holds 'arc' or 'flat'; ext is the file's
\* extension ("fits" or "gz" for .fits.gz); day is the MJD of DATE_OBS and
\* time the minutes of TIME_OBS; grat, itime and datatype are the GRAT, ITIME
\* and DATATYPE header values.  A header without the keyword leaves the ''
\* the column was filled with (line 208): "" for grat and datatype, <<>> for
\* itime, whose values are <<seconds>>; file is the name of the file, left
\* empty where nothing reads the number it holds
ScienceFile(h, t) ==
    [kind |-> "sci", name |-> h.name, beam |-> h.beam, pos |-> h.pos, time |-> t,
     ext |-> "fits", day |-> INSTRUMENT_DATE_SHIFT + 1, grat |-> "ShortXD",
     itime |-> <<120>>, datatype |-> "", file |-> <<>>]

\* A lamp exposure: its header carries no target data of interest; the lamps
\* are taken after the science exposures
LampFile(k) ==
    [kind |-> k, name |-> "", beam |-> "", pos |-> 0,
     time |-> IF k = "flat" THEN 50 ELSE 51,
     ext |-> "fits", day |-> INSTRUMENT_DATE_SHIFT + 1, grat |-> "ShortXD",
     itime |-> <<1>>, datatype |-> "", file |-> <<>>]

\* The lamp exposures of a folder: none, flats only, arcs only, or both
LampFiles ==
    {<<>>, <<LampFile("flat")>>, <<LampFile("arc")>>,
     <<LampFile("flat"), LampFile("arc")>>}

\* lines 226-231: a file name holding 'arc' / 'flat' overrides TARGET_NAME
TargetName(f) ==
    IF f.kind = "flat" THEN FLAT_NAME
    ELSE IF f.kind = "arc" THEN ARC_NAME
    ELSE f.name

\* lines 224-225: the MODE column.  Of the GRAT values the model draws,
\* only "ShortXD" holds 'SHORTXD' in upper case and only "LowRes15" holds
\* 'lowres' in lower case
Mode(f) ==
    IF f.grat = "ShortXD" THEN "SXD"
    ELSE IF f.grat = "LowRes15" THEN "Prism"
    ELSE f.grat

\* lines 216-231: TARGET_TYPE before the guess, the DATATYPE header value
\* unless the file name holds 'arc' or 'flat'
HeaderType(f) ==
    IF f.kind \in {"arc", "flat"} THEN "calibration" ELSE f.datatype

\* lines 236-237: float(dp['INTEGRATION'].iloc[i]) is evaluated when MODE
\* holds 'SXD' or 'Prism', and raises ValueError for the '' of a header
\* without ITIME
FloatRaises(f) ==
    HeaderType(f) = "" /\ Mode(f) \in {"SXD", "Prism"} /\ f.itime = <<>>

\* lines 234-237: a blank TARGET_TYPE becomes 'target', or 'standard' for a
\* short integration in the SXD or Prism mode
TargetType(f) ==
    IF HeaderType(f) /= "" THEN HeaderType(f)
    ELSE IF Mode(f) = "SXD" /\ f.itime /= <<>> /\ f.itime[1] <= 30 THEN "standard"
    ELSE IF Mode(f) = "Prism" /\ f.itime /= <<>> /\ f.itime[1] <= 10 THEN "standard"
    ELSE "target"

\* line 250: Time(DATETIME).mjd, in minutes
Mjd(f) == f.day * MinutesPerDay + f.time

\* lines 206-251, 258: one row of dp per file, INSTRUMENT 'spex' and
\* FIXED-MOVING 'fixed'; file and ext are the name and the extension of the
\* FILE column
Row(f) ==
    [name |-> TargetName(f), beam |-> f.beam, pos |-> f.pos,
     time |-> f.time, fm |-> "fixed", type |-> TargetType(f), mode |-> Mode(f),
     mjd |-> Mjd(f), instrument |-> "spex", ext |-> f.ext, file |-> f.file]

\* dp.sort_values('DATETIME'): the orders of the rows (as sequences of their
\* positions, drawn from the set S) that ascend in DATETIME; the order of
\* rows with equal DATETIME is not determined
RECURSIVE SortedOrders(_, _)
SortedOrders(rows, S) ==
    IF S = {} THEN {<<>>}
    ELSE UNION {{<<i>> \o t : t \in SortedOrders(rows, S \ {i})} :
                  i \in {k \in S : \A j \in S : rows[k].mjd <= rows[j].mjd}}

\* rows[rows[col] == v]: the selected rows, in order
RECURSIVE SelectSeq2(_, _, _)
SelectSeq2(rows, col, v) ==
    IF Len(rows) = 0 THEN <<>>
    ELSE (IF Head(rows)[col] = v THEN <<Head(rows)>> ELSE <<>>)
         \o SelectSeq2(Tail(rows), col, v)

\* pos1.separation(pos2).to(u.arcsec)
Separation(r1, r2) == Abs(r1.pos - r2.pos)

\* (time2-time1), in minutes
Elapsed(r1, r2) == r2.time - r1.time

\* (dx/dt).value > MOVING_MAXRATE with dt in hours; a zero dt divides to inf
\* (dx > 0) or nan (dx = 0), without raising
RateExceeds(dx, dt) ==
    IF dt = 0 THEN dx > 0
    ELSE dx * MinutesPerHour > MOVING_MAXRATE * dt

\* dt.value > 0.1 with dt in hours
DurationExceeds(dt) == 10 * dt > MinutesPerHour

\* line 275 with 'or' taken for 'and' (a mutant of IsMoving)
IsMovingAndRate(dx, dt) ==
    dx > MOVING_MAXSEP /\ (RateExceeds(dx, dt) /\ DurationExceeds(dt))

\* line 275 without the rate test (a mutant of IsMoving)
IsMovingSepOnly(dx, dt) ==
    dx > MOVING_MAXSEP

\* line 275
IsMoving(dx, dt) ==
    dx > MOVING_MAXSEP \/ (RateExceeds(dx, dt) /\ DurationExceeds(dt))

\* lines 266-276 for one name n: whether its rows become 'moving'
NameMoves(rows, n) ==
    LET dpsa == SelectSeq2(SelectSeq2(rows, "name", n), "beam", "A")
    IN  /\ Len(dpsa) > 1
        /\ IsMoving(Separation(dpsa[1], dpsa[Len(dpsa)]),
                    Elapsed(dpsa[1], dpsa[Len(dpsa)]))

\* lines 258-276: the FIXED-MOVING column
Classify(rows) ==
    [i \in 1..Len(rows) |->
        IF rows[i].name \notin {ARC_NAME, FLAT_NAME} /\ NameMoves(rows, rows[i].name)
        THEN [rows[i] EXCEPT !.fm = "moving"]
        ELSE rows[i]]

\* the set of TARGET_NAME values of the rows (line 259)
Names(rows) == {rows[i].name : i \in 1..Len(rows)}

\* the folder process_folder is called on
DataFolder == <<"/", "data">>

\* os.path.isdir(folder), given the directories dirs on disk
IsDir(folder, dirs) == folder \in dirs

\* glob.glob(folder+'/*.fits') / glob.glob(folder+'/*.fits.gz'): the files of
\* the folder with the extension, in the order the directory lists them
Glob(fs, ext) == SelectSeq2(fs, "ext", ext)

\* lines 197-201: the .fits files, or the .fits.gz files when there is none
Found(fs) ==
    IF Len(Glob(fs, "fits")) = 0 THEN Glob(fs, "gz") ELSE Glob(fs, "fits")

\* lines 240-242: with no 'target' row, every 'standard' row becomes 'target'
Revert(rows) ==
    IF \E i \in 1..Len(rows) : rows[i].type = "target" THEN rows
    ELSE [i \in 1..Len(rows) |->
            IF rows[i].type = "standard" THEN [rows[i] EXCEPT !.type = "target"]
            ELSE rows[i]]

\* lines 251-252: INSTRUMENT of every row, from the MJD of the first row in
\* the order glob returned the files (the rows are sorted afterwards)
Instrument(rows) ==
    IF rows[1].mjd > INSTRUMENT_DATE_SHIFT * MinutesPerDay
    THEN [i \in 1..Len(rows) |-> [rows[i] EXCEPT !.instrument = "uspex"]]
    ELSE rows

\* lines 206-252: dp before it is sorted, for the files found
Ingest(found) == Instrument(Revert([i \in 1..Len(found) |-> Row(found[i])]))

\* the exception process_folder raises, "" if none: NameError for the
\* undefined name inp of line 193, ValueError at line 203 (no file found), at
\* lines 236-237 (float('')) and at lines 260-261 (list.remove of a name
\* that is not in the list)
ProcessFolderExc(fs, folder, dirs) ==
    IF ~ IsDir(folder, dirs) THEN "NameError"
    ELSE IF Len(Found(fs)) = 0 THEN "ValueError"
    ELSE IF \E i \in 1..Len(Found(fs)) : FloatRaises(Found(fs)[i]) THEN "ValueError"
    ELSE IF ~ ({ARC_NAME, FLAT_NAME} \subseteq Names(Ingest(Found(fs)))) THEN "ValueError"
    ELSE ""

InitFolder ==
    /\ optional = OBSERVATION_PARAMETERS_OPTIONAL
    /\ batch_parameters = BATCH_PARAMETERS
    /\ calls = <<>>
    /\ pc = "start"
    \* lamp exposures and up to MaxScience science exposures (the rows are put
    \* in DATETIME order by process_folder whatever order glob returns)
    /\ \E l \in LampFiles, n \in 1..MaxScience :
          \E tm \in [1..n -> Times], h \in [1..n -> ScienceHeaders] :
              /\ \A i, j \in 1..n : i /= j => tm[i] /= tm[j]
              /\ files = l \o [i \in 1..n |-> ScienceFile(h[i], tm[i])]
    /\ dp = <<>>
    /\ fnum = <<>>
    /\ calf1 = <<>>
    /\ calf2 = <<>>
    /\ cal_sets = <<>>
    /\ driver_file = <<>>
    /\ options = <<>>
    /\ parameters = <<>>
    /\ exc = ""
    /\ driver_param = <<>>
    /\ folders = {DataFolder}
    /\ args = [folder |-> DataFolder]

\* process_folder returns dp: the rows sorted by DATETIME (lines 253-254) and
\* classified (lines 258-277)
ProcessFolderReturns ==
    /\ pc = "start"
    /\ ProcessFolderExc(files, args.folder, folders) = ""
    /\ \E t \in {Ingest(Found(files))} :
          \E p \in SortedOrders(t, 1..Len(t)) :
              dp' = Classify([i \in 1..Len(t) |-> t[p[i]]])
    /\ pc' = "done"
    /\ exc' = ""
    /\ UNCHANGED <<files, segVars, driver_file, options, parameters, writeVars, optional, batch_parameters,
                   calls>>

\* process_folder raises and returns nothing
ProcessFolderRaises ==
    /\ pc = "start"
    /\ ProcessFolderExc(files, args.folder, folders) /= ""
    /\ pc' = "raised"
    /\ exc' = ProcessFolderExc(files, args.folder, folders)
    /\ UNCHANGED <<files, dp, segVars, driver_file, options, parameters, writeVars, optional, batch_parameters,
                   calls>>

NextFolder == ProcessFolderReturns \/ ProcessFolderRaises

SpecFolder == InitFolder /\ [][NextFolder]_vars

----------------------------------------------------------------------------
(* Folders as they are found on disk *)

\* the science exposures of a folder
MaxExposures == 2

\* GRAT, ITIME and DATATYPE of a science exposure: the integration times
\* are at and above the limits of the guess (30 s for SXD, 10 s for Prism),
\* or missing; "LongXD" is a mode the guess does not know; "object" is a
\* DATATYPE value written by the instrument
ExposureHeaders ==
    [grat : {"ShortXD"}, itime : {<<>>, <<10>>, <<30>>, <<120>>}, datatype : {""}]
    \cup [grat : {"LowRes15"}, itime : {<<10>>, <<30>>}, datatype : {""}]
    \cup [grat : {"LongXD"}, itime : {<<>>}, datatype : {""}]
    \cup [grat : {"ShortXD"}, itime : {<<120>>}, datatype : {"object"}]

\* DATE_OBS: the day before the change of instrument and the day of it
Days == {INSTRUMENT_DATE_SHIFT - 1, INSTRUMENT_DATE_SHIFT}

\* the extensions of the files of a folder: all .fits, all .fits.gz, or
\* .fits and .fits.gz in turn
Extensions == {"fits", "gz", "mixed"}

Extension(e, i) ==
    IF e = "mixed" THEN (IF i % 2 = 1 THEN "fits" ELSE "gz") ELSE e

\* the i-th of n science exposures in the order the directory lists them:
\* taken 5 minutes apart from midnight on, in that order or in the reverse
Exposure(h, d, i, n, rev) ==
    [ScienceFile([name |-> "t1", beam |-> "A", pos |-> 0],
                 IF rev THEN 5 * (n - i) ELSE 5 * (i - 1))
        EXCEPT !.day = d, !.grat = h.grat, !.itime = h.itime,
               !.datatype = h.datatype]

InitIngest ==
    /\ optional = OBSERVATION_PARAMETERS_OPTIONAL
    /\ batch_parameters = BATCH_PARAMETERS
    /\ calls = <<>>
    /\ pc = "start"
    /\ args = [folder |-> DataFolder]
    /\ \/ /\ folders = {}
          /\ files = <<>>
       \/ /\ folders = {DataFolder}
          /\ \E l \in LampFiles, ld \in Days, n \in 0..MaxExposures, e \in Extensions,
                rev \in BOOLEAN, first \in BOOLEAN :
                \E h \in [1..n -> ExposureHeaders], d \in [1..n -> Days] :
                    LET lamps == [i \in 1..Len(l) |-> [l[i] EXCEPT !.day = ld]]
                        sci == [i \in 1..n |-> Exposure(h[i], d[i], i, n, rev)]
                        fs == IF first THEN lamps \o sci ELSE sci \o lamps
                    IN  files = [i \in 1..Len(fs) |->
                                   [fs[i] EXCEPT !.ext = Extension(e, i)]]
    /\ dp = <<>>
    /\ fnum = <<>>
    /\ calf1 = <<>>
    /\ calf2 = <<>>
    /\ cal_sets = <<>>
    /\ driver_file = <<>>
    /\ options = <<>>
    /\ parameters = <<>>
    /\ exc = ""
    /\ driver_param = <<>>

SpecIngest == InitIngest /\ [][NextFolder]_vars

----------------------------------------------------------------------------
(* Claims on the ingestion of a folder *)

\* the folder exists and holds at least one exposure file
Readable ==
    IsDir(args.folder, folders) /\ \E i \in 1..Len(files) : files[i].ext \in {"fits", "gz"}

\* C11: for every folder with at least one readable exposure, with or
\* without arc and flat files and whatever integration times are blank,
\* process_folder completes, and every record is 'fixed' or 'moving'.
C11_NeverRaises ==
    (pc /= "start" /\ Readable) =>
        /\ pc = "done"
        /\ exc = ""
        /\ \A i \in 1..Len(dp) : dp[i].fm \in {"fixed", "moving"}

\* C12: after process_folder every record's TARGET_TYPE is 'calibration',
\* 'standard' or 'target', whatever DATATYPE held.
C12_TypeDomain ==
    pc = "done" =>
        \A i \in 1..Len(dp) : dp[i].type \in {"calibration", "standard", "target"}

\* C13: after process_folder, a folder with a record that is not an arc or
\* flat exposure has a record of type 'target'; and no 'standard' record
\* is left when there is no 'target' record.
C13_TargetRemains ==
    pc = "done" =>
        /\ (\E i \in 1..Len(dp) : dp[i].name \notin {ARC_NAME, FLAT_NAME})
              => \E i \in 1..Len(dp) : dp[i].type = "target"
        /\ (\A i \in 1..Len(dp) : dp[i].type /= "target")
              => \A i \in 1..Len(dp) : dp[i].type /= "standard"

\* C14: every record's INSTRUMENT is 'uspex' if that record's MJD is after
\* 2014-07-01 and 'spex' otherwise.
C14_InstrumentPerRecord ==
    pc = "done" =>
        \A i \in 1..Len(dp) :
            dp[i].instrument =
                IF dp[i].mjd > INSTRUMENT_DATE_SHIFT * MinutesPerDay
                THEN "uspex" ELSE "spex"

\* C15: process_folder fails with the not-found ValueError when the
\* directory is absent or holds no exposure file, and then returns no
\* records; the records returned are those of the .fits.gz files if and
\* only if there is no .fits file.
C15_NotFound ==
    pc /= "start" =>
        /\ ~ Readable => (pc = "raised" /\ exc = "ValueError")
        /\ pc = "raised" => dp = <<>>
        /\ pc = "done" =>
              LET e == IF \E i \in 1..Len(files) : files[i].ext = "fits"
                       THEN "fits" ELSE "gz"
              IN  /\ \A i \in 1..Len(dp) : dp[i].ext = e
                  /\ Len(dp) = Cardinality({i \in 1..Len(files) : files[i].ext = e})

----------------------------------------------------------------------------
(* Claims on the fixed/moving classification *)

\* the non-calibration target names of dp
ScienceNames == Names(dp) \ {ARC_NAME, FLAT_NAME}

\* the rows of dp with target name n taken in beam A
BeamARows(n) == {i \in 1..Len(dp) : dp[i].name = n /\ dp[i].beam = "A"}

FirstA(n) == CHOOSE i \in BeamARows(n) : \A j \in BeamARows(n) : i <= j
LastA(n) == CHOOSE i \in BeamARows(n) : \A j \in BeamARows(n) : j <= i

\* separation (arcsec) and elapsed time (minutes) between the first and the
\* last beam-A exposure of n
SepA(n) == Abs(dp[FirstA(n)].pos - dp[LastA(n)].pos)
DtA(n) == dp[LastA(n)].time - dp[FirstA(n)].time

AllRows(n, v) == \A i \in 1..Len(dp) : dp[i].name = n => dp[i].fm = v

\* C9: for every non-calibration target name, all its records are 'moving'
\* iff it has at least 2 beam-A exposures and, between the first and the last
\* of them, the separation exceeds 15 arcsec or the rate exceeds 10 arcsec/hr
\* while the elapsed time exceeds 0.1 hr (6 minutes); otherwise all its
\* records are 'fixed'.  The rows of dp ascend in DATETIME.
C9_MovingIff ==
    pc = "done" =>
        /\ \A i \in 1..(Len(dp) - 1) : dp[i].time <= dp[i + 1].time
        /\ \A n \in ScienceNames :
              IF /\ Cardinality(BeamARows(n)) >= 2
                 /\ \/ SepA(n) > 15
                    \/ (DtA(n) > 6 /\ SepA(n) * 60 > 10 * DtA(n))
              THEN AllRows(n, "moving")
              ELSE AllRows(n, "fixed")

\* C9 witness: a target made 'moving' by its rate alone, with an exposure in
\* beam B among its records.
C9_Witness ==
    /\ pc = "done"
    /\ \E n \in ScienceNames :
          /\ Cardinality(BeamARows(n)) >= 2
          /\ SepA(n) <= 15
          /\ AllRows(n, "moving")
          /\ \E i \in 1..Len(dp) : dp[i].name = n /\ dp[i].beam = "B"

\* C10 as stated: 5 arcsec between the first and last beam-A exposures is
\* 'fixed' for every elapsed time, 20 arcsec is 'moving' regardless of rate.
C10_FiveAlwaysFixed ==
    pc = "done" =>
        \A n \in ScienceNames :
            Cardinality(BeamARows(n)) >= 2 =>
                /\ SepA(n) = 5 => AllRows(n, "fixed")
                /\ SepA(n) = 20 => AllRows(n, "moving")

\* C10 as amended: 5 arcsec apart is 'moving' exactly when the elapsed time
\* lies strictly between 0.1 hr (6 min) and 0.5 hr (30 min), and 'fixed'
\* otherwise; 20 arcsec apart is 'moving' regardless of rate.
C10_FiveFixedOutsideWindow ==
    pc = "done" =>
        \A n \in ScienceNames :
            Cardinality(BeamARows(n)) >= 2 =>
                /\ (SepA(n) = 5 /\ DtA(n) > 6 /\ DtA(n) < 30) => AllRows(n, "moving")
                /\ (SepA(n) = 5 /\ (DtA(n) <= 6 \/ DtA(n) >= 30)) => AllRows(n, "fixed")
                /\ SepA(n) = 20 => AllRows(n, "moving")

\* C10 witness: one target 5 arcsec apart that is 'moving' (9 minutes).
C10_Witness ==
    /\ pc = "done"
    /\ \E n \in ScienceNames :
          /\ Cardinality(BeamARows(n)) >= 2
          /\ SepA(n) = 5
          /\ DtA(n) = 9
          /\ AllRows(n, "moving")

----------------------------------------------------------------------------
(* read_driver *)

\* The outcome of a step that may raise
Ok(v) == [ok |-> TRUE, val |-> v]
Raise(e) == [ok |-> FALSE, exc |-> e]

\* lines 438-440: drop blank lines and the lines that start with '#'
CleanLines(lines) ==
    SelectSeq(lines, LAMBDA x : x /= <<>> /\ x /= <<"\n">> /\ x[1] /= "#")

\* lines 443-445: the keyword = value lines, blanks and newline removed
KLines(lines) ==
    LET k1 == SelectSeq(lines, LAMBDA x : Contains(x, "="))
        k2 == SelectSeq(k1, LAMBDA x : ~ Contains(x, OBSERVATION_SET_KEYWORD))
    IN  [i \in 1..Len(k2) |-> Remove(Remove(k2[i], " "), "\n")]

\* line 446: dict([l.strip().split('=') for l in klines]); dict raises
\* ValueError for an element that is not a pair
SplitEq(l) == Split(Strip(l), "=")
SplitEqAll(ls) == [i \in 1..Len(ls) |-> SplitEq(ls[i])]
NewKpar(klines) ==
    LET pairs == SplitEqAll(klines)
    IN  IF \E i \in 1..Len(pairs) : Len(pairs[i]) /= 2
        THEN Raise("ValueError")
        ELSE Ok(DictOfPairs(pairs))

\* line 450
SLines(lines) == SelectSeq(lines, LAMBDA x : Contains(x, OBSERVATION_SET_KEYWORD))

\* lines 452-457: the defaults of a set, overlaid with the non-empty global
\* parameters of the same key (without the overlay: a mutant of SetDefaults).
\* copy.deepcopy (line 452) copies OBSERVATION_PARAMETERS_REQUIRED, which
\* holds strings only; spar.update (line 453) and spar[k] = parameters[k]
\* (line 457) store the values themselves, a list with its identity
SetDefaultsNoGlobals(pars) ==
    Update(OBSERVATION_PARAMETERS_REQUIRED, OBSERVATION_PARAMETERS_OPTIONAL)
SetDefaults(pars) ==
    LET spar == Update(OBSERVATION_PARAMETERS_REQUIRED, OBSERVATION_PARAMETERS_OPTIONAL)
    IN  [k \in DOMAIN spar |->
            IF k \in DOMAIN pars /\ pars[k] /= Str(<<>>) THEN pars[k] ELSE spar[k]]

\* line 463: the required fields, by position after the keyword
WithRequired(spar, rpars) ==
    [k \in DOMAIN spar |->
        IF \E ii \in 1..Len(REQUIRED_KEYS) : REQUIRED_KEYS[ii] = k
        THEN Str(rpars[(CHOOSE ii \in 1..Len(REQUIRED_KEYS) : REQUIRED_KEYS[ii] = k) + 1])
        ELSE spar[k]]

\* lines 470-473: the instrument specific adjustments of ORDERS
AdjustOrders(spar, instrument) ==
    LET mode == spar[<<"MODE">>].str
        s1 == IF Contains(mode, "Prism")
              THEN [spar EXCEPT ![<<"ORDERS">>] = Str(<<"1">>)]
              ELSE spar
        orders == s1[<<"ORDERS">>].str
    IN  IF instrument = Str(<<"spex">>) /\ Contains(mode, "SXD")
        THEN IF Len(orders) = 0 THEN Raise("IndexError")
             ELSE IF orders[Len(orders)] = "9"
             THEN Ok([s1 EXCEPT ![<<"ORDERS">>] = Str(DropLast(orders) \o <<"8">>)])
             ELSE Ok(s1)
        ELSE Ok(s1)

\* lines 452-473 for one science line
ObservationSet(pars, sline) ==
    LET spar1 == SetDefaults(pars)
        rpars == Split(Remove(sline, "\n"), "\t")
        opars == SplitEqAll(SelectSeq(rpars, LAMBDA x : Contains(x, "=")))
    IN  IF Len(rpars) < Len(REQUIRED_KEYS) THEN Ok(spar1)
        ELSE IF Len(rpars) < Len(REQUIRED_KEYS) + 1 THEN Raise("IndexError")
        ELSE IF \E i \in 1..Len(opars) : Len(opars[i]) /= 2 THEN Raise("ValueError")
        ELSE AdjustOrders(Update(WithRequired(spar1, rpars), DictOfPairs(opars)),
                          pars[<<"INSTRUMENT">>])

\* line 476: the key of the i-th science line, i counted from 1
ObsSetKey(i) == <<OBSERVATION_SET_KEYWORD>> \o Zfill(FormatInt(i), 4)

\* lines 451-476: the science lines from the i-th on
RECURSIVE InsertSets(_, _, _)
InsertSets(pars, slines, i) ==
    IF i > Len(slines) THEN Ok(pars)
    ELSE LET r == ObservationSet(pars, slines[i])
         IN  IF ~ r.ok THEN r
             ELSE InsertSets(Update(pars, [k \in {ObsSetKey(i)} |-> DictVal(r.val)]),
                             slines, i + 1)

\* lines 427-428, 447: defaults, then options, then the lines of the file
Layered(opts, kpar) == Update(Update(BATCH_PARAMETERS, opts), kpar)

\* lines 479-480
BOOLEAN_KEYS == {<<"QA_FILE">>, <<"QA_PLOT">>}
Coerce(pars) ==
    [k \in DOMAIN pars |-> IF k \in BOOLEAN_KEYS THEN Bool(PyBool(pars[k])) ELSE pars[k]]

\* read_driver(driver_file, options), lines 427-488
ReadDriverResult(lines, opts) ==
    LET clean == CleanLines(lines)
        kpar == NewKpar(KLines(clean))
    IN  IF ~ kpar.ok THEN kpar
        ELSE LET r == InsertSets(Layered(opts, kpar.val), SLines(clean), 1)
             IN  IF ~ r.ok THEN r ELSE Ok(Coerce(r.val))

ReadDriverReturns ==
    /\ pc = "read"
    /\ LET r == ReadDriverResult(driver_file, options)
       IN  /\ r.ok
           /\ parameters' = r.val
    /\ exc' = ""
    /\ pc' = "done"
    /\ UNCHANGED <<driver_file, options, segVars, folderVars, writeVars, optional, batch_parameters,
                   calls>>

ReadDriverRaises ==
    /\ pc = "read"
    /\ LET r == ReadDriverResult(driver_file, options)
       IN  /\ ~ r.ok
           /\ exc' = r.exc
    /\ pc' = "raised"
    /\ UNCHANGED <<driver_file, options, parameters, segVars, folderVars, writeVars, optional, batch_parameters,
                   calls>>

NextRead == ReadDriverReturns \/ ReadDriverRaises

----------------------------------------------------------------------------
(* Driver files written by hand *)

\* largest number of lines of a hand-written driver file
MaxLines == 3

\* sep.join(fields)
RECURSIVE Join(_, _)
Join(fields, sep) ==
    IF Len(fields) = 0 THEN <<>>
    ELSE IF Len(fields) = 1 THEN fields[1]
    ELSE fields[1] \o <<sep>> \o Join(Tail(fields), sep)

\* 'KEY = VALUE\n'
GlobalLine(k, v) == <<k, " ", "=", " ">> \o v \o <<"\n">>

GlobalLines ==
    {GlobalLine("INSTRUMENT", <<"spex">>),
     GlobalLine("INSTRUMENT", <<"uspex">>),
     GlobalLine("QA_PLOT", <<"False">>),
     GlobalLine("QA_PLOT", <<"True">>),
     GlobalLine("ORDERS", <<"4", "-", "9">>),
     GlobalLine("ORDERS", <<>>),
     GlobalLine("NPOSITIONS", <<"1">>),
     GlobalLine("PROGRAM", <<"a", "=", "b">>)}

\* a commented-out setting
IgnoredLines == {<<"#", " ">> \o GlobalLine("QA_PLOT", <<"True">>)}

\* the ten required fields of a science line, for a mode
RequiredFields(mode) ==
    << <<mode>>, <<"fixed", " ", "ps">>, <<"src">>, <<"spc">>, <<"5", "-", "8">>,
       <<"flat", "1", "-", "4", ".fits">>, <<"wavecal", "1", "-", "4", ".fits">>,
       <<"std">>, <<"spc">>, <<"9", "-", "1", "2">> >>

\* the key=value tokens that may follow the required fields
EntryOptions ==
    {<<>>,
     << <<"ORDERS", "=", "4", "-", "9">> >>,
     << <<"ORDERS", "=", "5", "-", "7">> >>,
     << <<"NPOSITIONS", "=", "4">> >>}

ScienceLine(fields) == Join(<< <<OBSERVATION_SET_KEYWORD>> >> \o fields, "\t") \o <<"\n">>

\* complete science lines, and lines cut after 2 and after 9 fields
ScienceLines ==
    {ScienceLine(RequiredFields("SXD") \o o) : o \in EntryOptions}
    \cup {ScienceLine(RequiredFields("Prism")),
          ScienceLine(RequiredFields("Prism") \o << <<"ORDERS", "=", "4", "-", "9">> >>)}
    \cup {ScienceLine(SubSeq(RequiredFields("SXD"), 1, 2)),
          ScienceLine(SubSeq(RequiredFields("SXD"), 1, 9))}

CandidateLines == GlobalLines \cup IgnoredLines \cup ScienceLines

\* the options a caller passes
CallerOptions ==
    {<<>>,
     Rec([QA_PLOT |-> Bool(TRUE), INSTRUMENT |-> Str(<<"uspex">>),
          NPOSITIONS |-> PyInt(3)])}

InitRead ==
    /\ optional = OBSERVATION_PARAMETERS_OPTIONAL
    /\ batch_parameters = BATCH_PARAMETERS
    /\ calls = <<>>
    /\ pc = "read"
    /\ \E n \in 0..MaxLines : driver_file \in [1..n -> CandidateLines]
    /\ options \in CallerOptions
    /\ parameters = <<>>
    /\ exc = ""
    /\ fnum = <<>>
    /\ calf1 = <<>>
    /\ calf2 = <<>>
    /\ cal_sets = <<>>
    /\ files = <<>>
    /\ dp = <<>>
    /\ driver_param = <<>>
    /\ folders = {}
    /\ args = <<>>

SpecRead == InitRead /\ [][NextRead]_vars

----------------------------------------------------------------------------
(* Claims on read_driver *)

\* the lines of the driver file that are neither blank nor comments
Kept == SelectSeq(driver_file, LAMBDA x : x /= <<"\n">> /\ x[1] /= "#")

\* the tab-separated fields of the science lines of the file, in file order
Fields(line) == Split(Remove(line, "\n"), "\t")
Entries ==
    LET sl == SelectSeq(Kept, LAMBDA x : Contains(x, "OBS_SET"))
    IN  [i \in 1..Len(sl) |-> Fields(sl[i])]

\* the global lines of the file, in file order, blanks and newline removed
Unblank(line) == Remove(Remove(line, " "), "\n")
Globals ==
    LET kl == SelectSeq(Kept, LAMBDA x : ~ Contains(x, "OBS_SET"))
    IN  [i \in 1..Len(kl) |-> Unblank(kl[i])]

\* the observation set returned for the i-th science line
ParsedSet(i) == parameters[ObsSetKey(i)].dict

\* whether a token sequence is K=v for the key K, and its v
IsSetting(tok, K) == Len(tok) >= 2 /\ tok[1] = K /\ tok[2] = "="
ValueOf(tok) == SubSeq(tok, 3, Len(tok))

\* the settings of K among the token sequences toks, and the value of the
\* last of them
Settings(toks, K) == {j \in 1..Len(toks) : IsSetting(toks[j], K)}
LastValue(toks, K) ==
    ValueOf(toks[CHOOSE j \in Settings(toks, K) : \A m \in Settings(toks, K) : m <= j])

\* the global value of K: the file's line gl (blanks removed), else the
\* option of the caller
HasGlobal(gl, K) == Settings(gl, K) /= {} \/ <<K>> \in DOMAIN options
Global(gl, K) ==
    IF Settings(gl, K) /= {} THEN Str(LastValue(gl, K)) ELSE options[<<K>>]

\* The value that scope precedence gives key K of the set of a science line
\* with the fields fs: the entry's own setting, else the non-empty global
\* value, else the default
Precedence(gl, fs, K) ==
    IF Settings(fs, K) /= {} THEN Str(LastValue(fs, K))
    ELSE IF HasGlobal(gl, K) /\ Global(gl, K) /= Str(<<>>) THEN Global(gl, K)
    ELSE OBSERVATION_PARAMETERS_OPTIONAL[<<K>>]

\* the keys of the optional block
OptionalKeys == {k[1] : k \in DOMAIN OBSERVATION_PARAMETERS_OPTIONAL}

\* a science line that carries the keyword and the ten required fields
Complete(fs) == Len(fs) >= 11

\* C5 as stated: for every key of the optional block, ORDERS included, and
\* every mode and instrument, the parsed set holds the entry's own setting,
\* else the global setting, else the built-in default.
C5_ScopePrecedence ==
    pc = "done" =>
        LET gl == Globals
            en == Entries
        IN  \A i \in 1..Len(en) : Complete(en[i]) =>
                \A K \in OptionalKeys :
                    ParsedSet(i)[<<K>>] = Precedence(gl, en[i], K)

\* the domain rules on ORDERS: '1' in Prism mode; for spex in SXD mode a
\* final '9' becomes '8'
OrdersRule(fs, v) ==
    IF Contains(fs[2], "Prism") THEN Str(<<"1">>)
    ELSE IF /\ parameters[<<"INSTRUMENT">>] = Str(<<"spex">>)
            /\ Contains(fs[2], "SXD")
            /\ v.str[Len(v.str)] = "9"
         THEN Str(SubSeq(v.str, 1, Len(v.str) - 1) \o <<"8">>)
         ELSE v

\* C5 as amended: for a science line with all ten required fields, every key
\* of the optional block other than ORDERS holds the entry's own setting, else
\* the non-empty global value (the file's line with blanks removed, else the
\* caller's option), else the built-in default; ORDERS holds the value so
\* chosen after the domain rules for Prism mode and for spex in SXD mode.
C5_ScopePrecedenceOrdersRule ==
    pc = "done" =>
        LET gl == Globals
            en == Entries
        IN  \A i \in 1..Len(en) : Complete(en[i]) =>
                \A K \in OptionalKeys :
                    ParsedSet(i)[<<K>>] =
                        IF K = "ORDERS"
                        THEN OrdersRule(en[i], Precedence(gl, en[i], K))
                        ELSE Precedence(gl, en[i], K)

\* C5 witness: a returned document with a global ORDERS line and two science
\* lines, one with its own ORDERS setting and one without.
C5_Witness ==
    /\ pc = "done"
    /\ Settings(Globals, "ORDERS") /= {}
    /\ LastValue(Globals, "ORDERS") /= <<>>
    /\ \E i, j \in 1..Len(Entries) :
          /\ Complete(Entries[i]) /\ Complete(Entries[j])
          /\ Settings(Entries[i], "ORDERS") /= {}
          /\ Settings(Entries[j], "ORDERS") = {}
          /\ ParsedSet(i)[<<"ORDERS">>] /= ParsedSet(j)[<<"ORDERS">>]

\* C6: a line marked with the OBS_SET keyword that has fewer than the ten
\* required fields makes read_driver fail with a parse error citing the line;
\* no document is returned.
C6_ShortLineFails ==
    (pc \in {"done", "raised"} /\ \E i \in 1..Len(Entries) : ~ Complete(Entries[i]))
        => (pc = "raised" /\ exc = "ParseError")

\* C7: a line QA_PLOT = False yields the boolean false, QA_PLOT = True the
\* boolean true.
C7_BooleanCoercion ==
    (pc = "done" /\ Settings(Globals, "QA_PLOT") /= {}) =>
        /\ LastValue(Globals, "QA_PLOT") = <<"False">>
              => parameters[<<"QA_PLOT">>] = Bool(FALSE)
        /\ LastValue(Globals, "QA_PLOT") = <<"True">>
              => parameters[<<"QA_PLOT">>] = Bool(TRUE)

\* the global keys: those of BATCH_PARAMETERS, of the options and of the file
GlobalKeys ==
    {k[1] : k \in DOMAIN BATCH_PARAMETERS \cup DOMAIN options}
    \cup {"ORDERS", "NPOSITIONS"}

\* the value of the highest layer that gives K: the file's line (blanks
\* removed), else the options, else the default
Layer(gl, K) == IF HasGlobal(gl, K) THEN Global(gl, K) ELSE BATCH_PARAMETERS[<<K>>]

\* the value a text denotes for a boolean key
Denoted(K, v) ==
    IF K \in {"QA_FILE", "QA_PLOT"} /\ IsStr(v)
    THEN (IF v.str = <<"False">> THEN Bool(FALSE)
          ELSE IF v.str = <<"True">> THEN Bool(TRUE)
          ELSE v)
    ELSE v

\* C8: for every global key, the value returned is that of the file's line if
\* there is one, else that of the options if they give the key, else the
\* default of BATCH_PARAMETERS; a key given nowhere is not returned.
C8_Layering ==
    pc = "done" =>
        LET gl == Globals
        IN  \A K \in GlobalKeys :
                IF ~ HasGlobal(gl, K) /\ <<K>> \notin DOMAIN BATCH_PARAMETERS
                THEN <<K>> \notin DOMAIN parameters
                ELSE parameters[<<K>>] = Denoted(K, Layer(gl, K))

----------------------------------------------------------------------------
(* os.path on POSIX.  In a path the separator "/" is a token of its own; a  *)
(* component is the run of tokens between two separators.                  *)

\* the current working directory of the process
CWD == <<"/", "home">>

\* the position of the last "/" of p, 0 if there is none
LastSlash(p) ==
    IF ~ Contains(p, "/") THEN 0
    ELSE CHOOSE k \in 1..Len(p) :
            p[k] = "/" /\ \A j \in (k + 1)..Len(p) : p[j] /= "/"

\* head.rstrip('/')
RECURSIVE RStripSlash(_)
RStripSlash(p) ==
    IF Len(p) > 0 /\ p[Len(p)] = "/" THEN RStripSlash(DropLast(p)) ELSE p

\* os.path.split(p): <<head, tail>>
PathSplit(p) ==
    LET i == LastSlash(p)
        head == SubSeq(p, 1, i)
        tail == SubSeq(p, i + 1, Len(p))
    IN  <<IF \E k \in 1..Len(head) : head[k] /= "/" THEN RStripSlash(head) ELSE head,
          tail>>

\* os.path.dirname(p)
Dirname(p) == PathSplit(p)[1]

\* os.path.abspath(p), for a path without '.' and '..' components
Abspath(p) ==
    LET q == IF Len(p) > 0 /\ p[1] = "/" THEN p ELSE CWD \o <<"/">> \o p
        comps == SelectSeq(Split(q, "/"), LAMBDA c : c /= <<>>)
    IN  <<"/">> \o Join(comps, "/")

\* os.path.exists(p) for a directory, given the directories dirs on disk
Exists(p, dirs) == p /= <<>> /\ Abspath(p) \in dirs

\* s.replace(old, new), token by token; for an empty old, new is put before
\* every token and at the end
RECURSIVE ReplaceAll(_, _, _)
ReplaceAll(s, old, new) ==
    IF old = <<>>
    THEN (IF s = <<>> THEN new ELSE new \o <<Head(s)>> \o ReplaceAll(Tail(s), old, new))
    ELSE IF Len(s) < Len(old) THEN s
    ELSE IF SubSeq(s, 1, Len(old)) = old
         THEN new \o ReplaceAll(SubSeq(s, Len(old) + 1, Len(s)), old, new)
         ELSE <<Head(s)>> \o ReplaceAll(Tail(s), old, new)

----------------------------------------------------------------------------
(* numpy on small integer arrays *)

\* the elements of a in ascending order
RECURSIVE SortInts(_)
SortInts(a) ==
    IF Len(a) = 0 THEN <<>>
    ELSE LET i == CHOOSE k \in 1..Len(a) : \A j \in 1..Len(a) : a[k] <= a[j]
         IN  <<a[i]>> \o SortInts(SubSeq(a, 1, i - 1) \o SubSeq(a, i + 1, Len(a)))

\* twice np.median(a) of a non-empty array (the median itself may be a half)
Median2(a) ==
    LET srt == SortInts(a)
        n == Len(a)
    IN  IF n % 2 = 1 THEN 2 * srt[(n + 1) \div 2]
        ELSE srt[n \div 2] + srt[(n \div 2) + 1]

\* np.argmin(a) of a non-empty array, as a 1-based position: the first minimum
ArgMin(a) ==
    CHOOSE k \in 1..Len(a) :
        /\ \A j \in 1..Len(a) : a[k] <= a[j]
        /\ \A j \in 1..(k - 1) : a[j] > a[k]

\* np.nanmin(a) of a non-empty integer array
NanMin(a) == CHOOSE x \in {a[i] : i \in 1..Len(a)} : \A j \in 1..Len(a) : x <= a[j]

\* the first element taken for the largest (a mutant of NanMax)
NanMaxFirst(a) == a[1]

\* np.nanmax(a) of a non-empty integer array
NanMax(a) == CHOOSE x \in {a[i] : i \in 1..Len(a)} : \A j \in 1..Len(a) : x >= a[j]

\* int(s): the value of a text of decimal digits; ValueError otherwise
IsDigits(s) == Len(s) > 0 /\ \A i \in 1..Len(s) : \E d \in 1..10 : Digit[d] = s[i]
RECURSIVE ParseInt(_)
ParseInt(s) ==
    IF Len(s) = 0 THEN 0
    ELSE 10 * ParseInt(DropLast(s)) + ((CHOOSE d \in 1..10 : Digit[d] = s[Len(s)]) - 1)

\* x[-n:] and x[:-n] for n > 0
LastN(x, n) == SubSeq(x, IF Len(x) > n THEN Len(x) - n + 1 ELSE 1, Len(x))
ButLastN(x, n) == SubSeq(x, 1, Len(x) - n)

----------------------------------------------------------------------------
(* write_driver *)

\* a call that returns None leaves no dictionary
None == <<>>

\* the outcome of the statements up to a point of write_driver: the exception
\* raised ("" if none) and the values reached
Outcome(e, v) == [exc |-> e, val |-> v]

\* line 590: (x.split('_')[0]).lower()
FolderWord(x) ==
    CASE x = "CALS_FOLDER" -> <<"cals">>
      [] x = "PROC_FOLDER" -> <<"proc">>
      [] x = "QA_FOLDER" -> <<"qa">>

\* line 590: the folder parallel to the data folder
ParallelFolder(data, x) ==
    ReplaceAll(data, PathSplit(Dirname(data))[2], FolderWord(x))

\* lines 589-590: the folder of key x, derived from the data folder if blank
FolderPath(param, x) ==
    IF param[<<x>>] = Str(<<>>)
    THEN ParallelFolder(param[<<"DATA_FOLDER">>].str, x)
    ELSE param[<<x>>].str

\* lines 587-595 for the keys xs in turn, path being the folder of the first
\* of them; os.mkdir raises FileNotFoundError when the parent directory is
\* missing
RECURSIVE CheckFolders(_, _, _, _)
CheckFolder(xs, path, param, dirs, create_folders) ==
    IF Exists(path, dirs) THEN CheckFolders(Tail(xs), param, dirs, create_folders)
    ELSE IF ~ create_folders
         THEN Outcome("ValueError", [param |-> param, dirs |-> dirs])
    ELSE IF path = <<>> \/ Dirname(Abspath(path)) \notin dirs
         THEN Outcome("FileNotFoundError", [param |-> param, dirs |-> dirs])
    ELSE CheckFolders(Tail(xs), param, dirs \cup {Abspath(path)}, create_folders)
CheckFolders(xs, param, dirs, create_folders) ==
    IF xs = <<>> THEN Outcome("", [param |-> param, dirs |-> dirs])
    ELSE CheckFolder(xs, FolderPath(param, Head(xs)),
                     Update(param, [k \in {<<Head(xs)>>} |->
                                        Str(FolderPath(param, Head(xs)))]),
                     dirs, create_folders)

\* lines 580-595
ManageFolders(data_folder, opts, create_folders, dirs) ==
    LET p0 == Update(BATCH_PARAMETERS, opts)
        p1 == IF data_folder /= <<>>
              THEN Update(p0, [k \in {<<"DATA_FOLDER">>} |-> Str(data_folder)])
              ELSE p0
    IN  IF ~ Exists(p1[<<"DATA_FOLDER">>].str, dirs)
        THEN Outcome("ValueError", [param |-> p1, dirs |-> dirs])
        ELSE CheckFolders(<<"CALS_FOLDER", "PROC_FOLDER", "QA_FOLDER">>,
                          p1, dirs, create_folders)

\* lines 599-600: the first record's values
FirstRecord(param, d) ==
    Update(param,
           [k \in {<<"INSTRUMENT">>, <<"UT_DATE">>, <<"OBSERVER">>, <<"PROGRAM">>}
               |-> Str(d[1][k[1]])])

\* line 604
FileStem(file) == Remove(Remove(file, ".a.fits"), ".b.fits")

\* lines 605-606
NumberWidth(param) == IF param[<<"INSTRUMENT">>] = Str(<<"uspex">>) THEN 5 ELSE 4

\* lines 604-608: dpc with its PREFIX and FILE NUMBER columns
WithNumbers(d, n) ==
    [i \in 1..Len(d) |->
        d[i] @@ [PREFIX |-> ButLastN(FileStem(d[i].FILE), n),
                 FILE_NUMBER |-> ParseInt(LastN(FileStem(d[i].FILE), n))]]

\* the FILE NUMBER column of rows
FileNumbers(rows) == [i \in 1..Len(rows) |-> rows[i].FILE_NUMBER]

\* lines 611-617: the prefixes of the first flat, the first arc and the first
\* record that is neither; .iloc[0] of an empty selection raises IndexError
Prefixes(param, dpc) ==
    LET flats == SelectSeq(dpc, LAMBDA r : r.TARGET_NAME = <<FLAT_NAME>>)
        arcs == SelectSeq(dpc, LAMBDA r : r.TARGET_NAME = <<ARC_NAME>>)
        sci == SelectSeq(dpc, LAMBDA r : r.TARGET_NAME /= <<FLAT_NAME>>
                                         /\ r.TARGET_NAME /= <<ARC_NAME>>)
    IN  IF Len(flats) = 0 \/ Len(arcs) = 0 \/ Len(sci) = 0
        THEN Outcome("IndexError", param)
        ELSE Outcome("", Update(param,
                Rec([FLAT_FILE_PREFIX |-> Str(flats[1].PREFIX),
                     ARC_FILE_PREFIX |-> Str(arcs[1].PREFIX),
                     SCIENCE_FILE_PREFIX |-> Str(sci[1].PREFIX)])))

\* '{} = {}\n'.format(x, driver_param[x]) for the keys xs in turn
GlobalText(param, xs) == [i \in 1..Len(xs) |-> GlobalLine(xs[i], param[<<xs[i]>>].str)]

\* line 633: the folders are written as absolute paths
FolderText(param, xs) ==
    [i \in 1..Len(xs) |-> GlobalLine(xs[i], Abspath(param[<<xs[i]>>].str))]

\* lines 622-647: the lines written before the science observations (comment
\* is left at its default '')
PreambleText(param, sets) ==
    << <<"#", " ", "Batch", " ", "reduction", " ", "driver", " ", "file", " ",
         "for", " ">> \o param[<<"INSTRUMENT">>].str
         \o <<" ", "observations", " ", "on", " ">> \o param[<<"UT_DATE">>].str
         \o <<"\n">>,
       <<"\n">>,
       <<"#", " ", "Observational", " ", "information", "\n">> >>
    \o GlobalText(param, <<"INSTRUMENT", "UT_DATE", "PROGRAM", "OBSERVER">>)
    \o << <<"\n">>, <<"#", " ", "Folders", " ", "and", " ", "files", "\n">> >>
    \o FolderText(param, <<"DATA_FOLDER", "CALS_FOLDER", "PROC_FOLDER", "QA_FOLDER">>)
    \o GlobalText(param, <<"SCIENCE_FILE_PREFIX", "SPECTRA_FILE_PREFIX",
                           "COMBINED_FILE_PREFIX", "CALIBRATED_FILE_PREFIX",
                           "STITCHED_FILE_PREFIX">>)
    \o << <<"\n">>, <<"#", " ", "Lamp", " ", "calibrations", "\n">> >>
    \o GlobalText(param, <<"FLAT_FILE_PREFIX", "ARC_FILE_PREFIX">>)
    \o << GlobalLine("CAL_SETS", DropLast(sets)) >>

\* lines 662-663
ScienceHeading ==
    << <<"\n">>,
       <<"#", " ", "Science", " ", "observations", "\n">>,
       <<"#", "\t", "Mode", "\t", "Target", " ", "Type", "\t", "Target", " ", "Name",
         "\t", "Prefix", "\t", "Files", "\t", "Flat", " ", "Filename", "\t",
         "Wavecal", " ", "Filename", "\t", "Std", " ", "Name", "\t", "Std", " ",
         "Prefix", "\t", "Std", " ", "Files", "\t", "Options", " ", "(key", "=",
         "value)", "\n">> >>

\* '{:.0f}-{:.0f}'.format(a, b)
RangeText(a, b) == FormatInt(a) \o <<"-">> \o FormatInt(b)

\* lines 671-677 with i = 0 whatever the records (a mutant of CalEntry)
CalEntryFirstSet(dpcal, dpsrc, f1, sets) ==
    IF Len(SelectSeq(dpcal, LAMBDA r : r.MODE = dpsrc[1].MODE)) > 0 /\ Len(f1) = 0
    THEN Outcome("ValueError", <<>>)
    ELSE Outcome("", Split(sets, ",")[1])

\* lines 671-677: the calibration set named on the line of a target; np.argmin
\* of an empty array raises ValueError
CalEntry(dpcal, dpsrc, f1, sets) ==
    LET dpcals == SelectSeq(dpcal, LAMBDA r : r.MODE = dpsrc[1].MODE)
        med2 == Median2(FileNumbers(dpsrc))
    IN  IF Len(dpcals) = 0 THEN Outcome("", Split(sets, ",")[1])
        ELSE IF Len(f1) = 0 THEN Outcome("ValueError", <<>>)
        ELSE Outcome("", Split(sets, ",")[
                ArgMin([j \in 1..Len(f1) |-> Abs(2 * f1[j] - med2)])])

\* lines 687-689: twice the DIFF column of dpflux
StdDiff(dpflux, dpsrc) ==
    LET am2 == Median2([i \in 1..Len(dpsrc) |-> dpsrc[i].AIRMASS])
        mjd2 == Median2([i \in 1..Len(dpsrc) |-> dpsrc[i].MJD])
    IN  [i \in 1..Len(dpflux) |->
            Abs(2 * dpflux[i].AIRMASS - am2) + Abs(2 * dpflux[i].MJD - mjd2)]

\* lines 690-691 with DIFF1 taken for DIFF (a mutant of StdChoice)
StdChoiceAirmassOnly(dpflux, dpsrc) ==
    LET am2 == Median2([i \in 1..Len(dpsrc) |-> dpsrc[i].AIRMASS])
    IN  ArgMin([i \in 1..Len(dpflux) |-> Abs(2 * dpflux[i].AIRMASS - am2)])

\* lines 690-691: np.argmin(dpflux['DIFF']), the position of the standard
\* record chosen
StdChoice(dpflux, dpsrc) == ArgMin(StdDiff(dpflux, dpsrc))

\* lines 680-707: the three standard fields of the line of a target
StdFields(dpc, dpsrc, param) ==
    LET dpflux == SelectSeq(dpc, LAMBDA r : r.TARGET_TYPE = <<"standard">>
                                            /\ r.MODE = dpsrc[1].MODE)
        ftxt == <<param[<<"SCIENCE_FILE_PREFIX">>].str, <<"UNKNOWN">>, <<"0", "-", "0">> >>
        fref == dpflux[StdChoice(dpflux, dpsrc)].FILE_NUMBER
        tname == dpflux[StdChoice(dpflux, dpsrc)].TARGET_NAME
        dpfluxs == SelectSeq(dpflux, LAMBDA r : r.TARGET_NAME = tname)
        fn == FileNumbers(dpfluxs)
        telf1 == RunStarts(fn)
        telf2 == RunEnds(fn)
        i == ArgMin([j \in 1..Len(telf1) |-> Abs(fref - telf1[j])])
    IN  IF Len(dpflux) = 0 THEN ftxt
        ELSE IF Len(fn) < 2 THEN ftxt
        ELSE IF Len(fn) = 2
             THEN <<tname, dpfluxs[1].PREFIX, RangeText(fn[1], fn[2])>>
        ELSE IF Len(telf1) = 0 THEN ftxt
        ELSE IF Len(telf1) = 1
             THEN <<tname, dpfluxs[1].PREFIX, RangeText(telf1[1], telf2[1])>>
        ELSE <<tname, dpfluxs[i].PREFIX, RangeText(telf1[i], telf2[i])>>

\* lines 665-712: the line of the target n
TargetLine(n, dpc, dpcal, f1, sets, param) ==
    LET dpsrc == SelectSeq(dpc, LAMBDA r : r.TARGET_NAME = n)
        fn == FileNumbers(dpsrc)
        cal == CalEntry(dpcal, dpsrc, f1, sets)
    IN  IF cal.exc /= "" THEN cal
        ELSE Outcome("", ScienceLine(
                << dpsrc[1].MODE, dpsrc[1].FIXED_MOVING \o <<" ", "ps">>, n,
                   dpsrc[1].PREFIX, RangeText(NanMin(fn), NanMax(fn)),
                   <<"flat">> \o cal.val \o <<".fits">>,
                   <<"wavecal">> \o cal.val \o <<".fits">> >>
                \o StdFields(dpc, dpsrc, param)))

\* lines 664-712: the lines of the targets names, in turn; a raise leaves the
\* lines written before it
RECURSIVE TargetLines(_, _, _, _, _, _)
TargetLines(names, dpc, dpcal, f1, sets, param) ==
    IF names = <<>> THEN Outcome("", <<>>)
    ELSE LET l == TargetLine(Head(names), dpc, dpcal, f1, sets, param)
             rest == TargetLines(Tail(names), dpc, dpcal, f1, sets, param)
         IN  IF l.exc /= "" THEN Outcome(l.exc, <<>>)
             ELSE Outcome(rest.exc, <<l.val>> \o rest.val)

\* the names the records of the model carry, in the order of Python's str
NameOrder == << <<"HD1">>, <<"t1">>, <<"t2">> >>

\* lines 650-653 with names.sort(reverse=True) (a mutant of
\* SortedTargetNames)
SortedTargetNamesDescending(dpc) ==
    LET dps == SelectSeq(dpc, LAMBDA r : r.TARGET_TYPE = <<"target">>)
        rev == [i \in 1..Len(NameOrder) |-> NameOrder[Len(NameOrder) + 1 - i]]
    IN  SelectSeq(rev, LAMBDA n : \E i \in 1..Len(dps) : dps[i].TARGET_NAME = n)

\* lines 650-653: the sorted names of the records of type 'target'
SortedTargetNames(dpc) ==
    LET dps == SelectSeq(dpc, LAMBDA r : r.TARGET_TYPE = <<"target">>)
    IN  SelectSeq(NameOrder, LAMBDA n : \E i \in 1..Len(dps) : dps[i].TARGET_NAME = n)

\* The outcome of write_driver: the exception raised ("" if none), the values
\* of its locals, the directories and the driver file it leaves, and the
\* dictionary it returns (None if it returns none)
Outset(dirs) ==
    [exc |-> "", driver_param |-> <<>>, folders |-> dirs, driver_file |-> <<>>,
     fnum |-> <<>>, calf1 |-> <<>>, calf2 |-> <<>>, cal_sets |-> <<>>,
     parameters |-> None]

\* lines 713-723, text being the lines written: check=True returns what
\* read_driver returns (its exception passes to the caller)
Finish(check, o, text, rd) ==
    IF ~ check THEN [o EXCEPT !.driver_file = text]
    ELSE IF ~ rd.ok THEN [o EXCEPT !.driver_file = text, !.exc = rd.exc]
    ELSE [o EXCEPT !.driver_file = text, !.parameters = rd.val]

\* lines 662-712, tl being the outcome of the loop over the names
WriteTargets(check, o, tl) ==
    IF tl.exc /= ""
    THEN [o EXCEPT !.exc = tl.exc, !.driver_file = @ \o ScienceHeading \o tl.val]
    ELSE Finish(check, o, o.driver_file \o ScienceHeading \o tl.val,
                ReadDriverResult(o.driver_file \o ScienceHeading \o tl.val, <<>>))

\* lines 650-712: with no record of type 'target' the file is closed and
\* None is returned
WriteObservations(check, o, dpc, dpcal, names) ==
    IF names = <<>> THEN o
    ELSE WriteTargets(check, o,
            TargetLines(names, dpc, dpcal, o.calf1, o.cal_sets, o.driver_param))

\* lines 620-647, fn being the file numbers of the calibration records
WritePreamble(check, o, dpc, dpcal, fn) ==
    WriteObservations(check,
        [o EXCEPT !.fnum = fn, !.calf1 = RunStarts(fn), !.calf2 = RunEnds(fn),
                  !.cal_sets = CalSetsText(RunStarts(fn), RunEnds(fn)),
                  !.driver_file = PreambleText(o.driver_param,
                                        CalSetsText(RunStarts(fn), RunEnds(fn)))],
        dpc, dpcal, SortedTargetNames(dpc))

\* lines 611-642, pf being the outcome of the prefix selection
SetPrefixes(check, o, dpc, pf) ==
    IF pf.exc /= "" THEN [o EXCEPT !.exc = pf.exc]
    ELSE WritePreamble(check, [o EXCEPT !.driver_param = pf.val], dpc,
            SelectSeq(dpc, LAMBDA r : r.TARGET_TYPE = <<"calibration">>),
            FileNumbers(SelectSeq(dpc, LAMBDA r : r.TARGET_TYPE = <<"calibration">>)))

\* lines 604-617, n being the number of digits of a file number; int() of a
\* text that is not a number raises ValueError
SetNumbers(check, o, d, n) ==
    IF \E i \in 1..Len(d) : ~ IsDigits(LastN(FileStem(d[i].FILE), n))
    THEN [o EXCEPT !.exc = "ValueError"]
    ELSE SetPrefixes(check, o, WithNumbers(d, n),
                     Prefixes(o.driver_param, WithNumbers(d, n)))

\* lines 598-617, fo being the outcome of the folder checks; .iloc[0] of an
\* empty collection raises IndexError
AfterFolders(check, o, d, fo) ==
    IF fo.exc /= ""
    THEN [o EXCEPT !.exc = fo.exc, !.driver_param = fo.val.param,
                   !.folders = fo.val.dirs]
    ELSE IF Len(d) = 0
    THEN [o EXCEPT !.exc = "IndexError", !.driver_param = fo.val.param,
                   !.folders = fo.val.dirs]
    ELSE SetNumbers(check,
            [o EXCEPT !.driver_param = FirstRecord(fo.val.param, d),
                      !.folders = fo.val.dirs],
            d, NumberWidth(FirstRecord(fo.val.param, d)))

\* write_driver(d, data_folder=a.data_folder, options=opts,
\* create_folders=a.create_folders, check=a.check) with the directories dirs
\* on disk
WriteDriverResult(d, a, opts, dirs) ==
    AfterFolders(a.check, Outset(dirs), d,
                 ManageFolders(a.data_folder, opts, a.create_folders, dirs))

\* lines 580-608 with driver_param and dpc bound to the caller's objects, no
\* copy taken (a mutant of CallerObjects)
CallerObjectsShared(d, opts, bp, r) ==
    [dp |-> IF r.driver_file /= <<>>
            THEN WithNumbers(d, NumberWidth(r.driver_param)) ELSE d,
     options |-> opts,
     BATCH_PARAMETERS |-> IF r.driver_param /= <<>> THEN r.driver_param ELSE bp]

\* the objects of the caller and of the module once the statements of
\* write_driver have run with the outcome r: driver_param is a deep copy of
\* BATCH_PARAMETERS (line 580) which update() fills from options (line 581),
\* and dpc a deep copy of dp (line 598), so the assignments of lines 582-617
\* and the columns of lines 604-608 reach the copies alone
CallerObjects(d, opts, bp, r) ==
    [dp |-> d, options |-> opts, BATCH_PARAMETERS |-> bp]

\* write_driver returns: None after a call with check=False or without
\* targets (the caller then reads the file with read_driver), else the
\* dictionary read_driver gave it
WriteDriverReturns ==
    /\ pc = "write"
    /\ \E r \in {WriteDriverResult(dp, args, options, folders)} :
           /\ r.exc = ""
           /\ driver_param' = r.driver_param
           /\ folders' = r.folders
           /\ driver_file' = r.driver_file
           /\ fnum' = r.fnum
           /\ calf1' = r.calf1
           /\ calf2' = r.calf2
           /\ cal_sets' = r.cal_sets
           /\ parameters' = r.parameters
           /\ pc' = IF r.parameters = None THEN "read" ELSE "done"
           /\ \E c \in {CallerObjects(dp, options, batch_parameters, r)} :
                 /\ dp' = c.dp
                 /\ options' = c.options
                 /\ batch_parameters' = c.BATCH_PARAMETERS
    /\ exc' = ""
    /\ UNCHANGED <<files, args, optional, calls>>

\* write_driver raises
WriteDriverRaises ==
    /\ pc = "write"
    /\ \E r \in {WriteDriverResult(dp, args, options, folders)} :
           /\ r.exc /= ""
           /\ exc' = r.exc
           /\ driver_param' = r.driver_param
           /\ folders' = r.folders
           /\ driver_file' = r.driver_file
           /\ fnum' = r.fnum
           /\ calf1' = r.calf1
           /\ calf2' = r.calf2
           /\ cal_sets' = r.cal_sets
           /\ \E c \in {CallerObjects(dp, options, batch_parameters, r)} :
                 /\ dp' = c.dp
                 /\ options' = c.options
                 /\ batch_parameters' = c.BATCH_PARAMETERS
    /\ pc' = "raised"
    /\ UNCHANGED <<files, parameters, args, optional, calls>>

NextDriver ==
    WriteDriverReturns \/ WriteDriverRaises \/ ReadDriverReturns \/ ReadDriverRaises

----------------------------------------------------------------------------
(* Record collections, as process_folder returns them *)

\* largest number of flat exposures of a night
MaxFlats == 2

\* the numbers of arc exposures of a night
ArcCounts == {1, 2}

\* the header values all records of a night share; width is the number of
\* digits of the file numbers (4 for spex, 5 for uspex)
Nights ==
    {[INSTRUMENT |-> <<"spex">>, width |-> 4, OBSERVER |-> <<"Burgasser">>,
      PROGRAM |-> <<"2", "0", "2", "0", "A">>],
     [INSTRUMENT |-> <<"spex">>, width |-> 4,
      OBSERVER |-> <<"Adam", " ", "Burgasser">>,
      PROGRAM |-> <<"2", "0", "2", "0", "A">>],
     [INSTRUMENT |-> <<"uspex">>, width |-> 5, OBSERVER |-> <<"Burgasser">>,
      PROGRAM |-> <<"2", "0", "2", "0", "A">>],
     [INSTRUMENT |-> <<"spex">>, width |-> 4, OBSERVER |-> <<"Burgasser">>,
      PROGRAM |-> <<"2", "0", "2", "0", "A", "=", "ToO">>]}

UT_DATE == <<"2", "0", "2", "0", "-", "0", "1", "-", "1", "5">>

\* the science exposures: name, type, mode, classification and airmass (in
\* hundredths)
ScienceKinds ==
    {[TARGET_NAME |-> <<"t1">>, TARGET_TYPE |-> <<"target">>, MODE |-> <<"SXD">>,
      FIXED_MOVING |-> <<"fixed">>, AIRMASS |-> 100],
     [TARGET_NAME |-> <<"t2">>, TARGET_TYPE |-> <<"target">>, MODE |-> <<"Prism">>,
      FIXED_MOVING |-> <<"moving">>, AIRMASS |-> 120],
     [TARGET_NAME |-> <<"HD1">>, TARGET_TYPE |-> <<"standard">>, MODE |-> <<"SXD">>,
      FIXED_MOVING |-> <<"fixed">>, AIRMASS |-> 110]}

\* a lamp exposure (lines 226-231 of process_folder)
LampKind(name) ==
    [TARGET_NAME |-> <<name>>, TARGET_TYPE |-> <<"calibration">>, MODE |-> <<"SXD">>,
     FIXED_MOVING |-> <<"fixed">>, AIRMASS |-> 100]

\* the file name of exposure number k: prefix, zero-filled number, beam
FileName(prefix, k, width) ==
    <<prefix>> \o Zfill(FormatInt(k), width)
    \o <<IF k % 2 = 1 THEN ".a.fits" ELSE ".b.fits">>

FilePrefix(kind) ==
    IF kind.TARGET_NAME = <<FLAT_NAME>> THEN "flat"
    ELSE IF kind.TARGET_NAME = <<ARC_NAME>> THEN "arc"
    ELSE "spc"

\* the record of the exposure number k of a night; MJD counts in hundredths
\* of a day from the start of the night
Record(kind, night, k) ==
    kind @@ [FILE |-> FileName(FilePrefix(kind), k, night.width),
             INSTRUMENT |-> night.INSTRUMENT, UT_DATE |-> UT_DATE,
             OBSERVER |-> night.OBSERVER, PROGRAM |-> night.PROGRAM, MJD |-> k]

\* the records of a night, in DATETIME order: the exposures kinds, numbered
\* from 1, with one number left out after the exposure gap (0: none left out)
NightRecords(kinds, night, gap) ==
    [i \in 1..Len(kinds) |->
        Record(kinds[i], night, IF gap > 0 /\ i > gap THEN i + 1 ELSE i)]

\* the exposure after which a number may be left out
Gaps == {0, 2}

\* the directories of a disk with all four folders, and with the data folders
\* alone
DiskFull ==
    {<<"/">>, CWD, <<"/", "obs">>, <<"/", "obs", "/", "data">>,
     <<"/", "obs", "/", "cals">>, <<"/", "obs", "/", "proc">>,
     <<"/", "obs", "/", "qa">>, <<"/", "my", " ", "obs">>,
     <<"/", "my", " ", "obs", "/", "data">>, <<"/", "my", " ", "obs", "/", "cals">>,
     <<"/", "my", " ", "obs", "/", "proc">>, <<"/", "my", " ", "obs", "/", "qa">>}
DiskDataOnly ==
    {<<"/">>, CWD, <<"/", "obs">>, <<"/", "obs", "/", "data">>}

\* the calls: data folder, directories on disk, create_folders, options
Calls ==
    {[data_folder |-> <<"/", "obs", "/", "data", "/">>, dirs |-> DiskFull,
      create_folders |-> FALSE, options |-> <<>>],
     [data_folder |-> <<"/", "my", " ", "obs", "/", "data", "/">>, dirs |-> DiskFull,
      create_folders |-> FALSE, options |-> <<>>],
     [data_folder |-> <<"/", "obs", "/", "data", "/">>, dirs |-> DiskDataOnly,
      create_folders |-> TRUE, options |-> <<>>],
     [data_folder |-> <<"/", "obs", "/", "data", "/">>, dirs |-> DiskDataOnly,
      create_folders |-> FALSE, options |-> <<>>],
     [data_folder |-> <<>>, dirs |-> DiskFull, create_folders |-> FALSE,
      options |-> <<>>],
     [data_folder |-> <<"/", "obs", "/", "data">>, dirs |-> DiskDataOnly,
      create_folders |-> TRUE, options |-> <<>>],
     [data_folder |-> <<"/", "obs", "/", "data", "/">>, dirs |-> DiskFull,
      create_folders |-> FALSE,
      options |-> Rec([QA_FOLDER |-> Str(<<"/", "obs", "/", "proc">>),
                       SPECTRA_FILE_PREFIX |-> Str(<<"spec">>)])]}

InitDriver ==
    /\ optional = OBSERVATION_PARAMETERS_OPTIONAL
    /\ batch_parameters = BATCH_PARAMETERS
    /\ calls = <<>>
    /\ pc = "write"
    \* process_folder returns no collection without a flat and an arc exposure
    /\ \E nf \in 1..MaxFlats, na \in ArcCounts, ns \in 0..MaxScience,
          night \in Nights, gap \in Gaps :
          \E sci \in [1..ns -> ScienceKinds] :
              dp = NightRecords([i \in 1..nf |-> LampKind(FLAT_NAME)]
                                \o [i \in 1..na |-> LampKind(ARC_NAME)] \o sci,
                                night, gap)
    /\ \E c \in Calls, check \in BOOLEAN :
          /\ args = [data_folder |-> c.data_folder,
                     create_folders |-> c.create_folders, check |-> check]
          /\ folders = c.dirs
          /\ options = c.options
    /\ driver_file = <<>>
    /\ driver_param = <<>>
    /\ parameters = <<>>
    /\ exc = ""
    /\ fnum = <<>>
    /\ calf1 = <<>>
    /\ calf2 = <<>>
    /\ cal_sets = <<>>
    /\ files = <<>>

SpecDriver == InitDriver /\ [][NextDriver]_vars

----------------------------------------------------------------------------
(* Claims on write_driver followed by read_driver *)

\* the science lines of the driver file, in file order
WrittenSets == SelectSeq(driver_file, LAMBDA x : x[1] = OBSERVATION_SET_KEYWORD)

\* the keys of the observation sets of a returned dictionary
ObsKeys(pars) == {k \in DOMAIN pars : k[1] = OBSERVATION_SET_KEYWORD}

\* the global values write_driver writes: the folders as absolute paths,
\* CAL_SETS without its final comma, the others as driver_param holds them
WrittenGlobalKeys ==
    {"INSTRUMENT", "UT_DATE", "PROGRAM", "OBSERVER", "DATA_FOLDER", "CALS_FOLDER",
     "PROC_FOLDER", "QA_FOLDER", "SCIENCE_FILE_PREFIX", "SPECTRA_FILE_PREFIX",
     "COMBINED_FILE_PREFIX", "CALIBRATED_FILE_PREFIX", "STITCHED_FILE_PREFIX",
     "FLAT_FILE_PREFIX", "ARC_FILE_PREFIX", "CAL_SETS"}
WrittenGlobal(K) ==
    IF K = "CAL_SETS" THEN Str(DropLast(cal_sets))
    ELSE IF K \in {"DATA_FOLDER", "CALS_FOLDER", "PROC_FOLDER", "QA_FOLDER"}
         THEN Str(Abspath(driver_param[<<K>>].str))
         ELSE driver_param[<<K>>]

\* a record of type 'target' is in the collection
HasTarget == \E i \in 1..Len(dp) : dp[i].TARGET_TYPE = <<"target">>

\* C4: for a record collection with a science target, the dictionary that
\* read_driver returns for the file write_driver wrote holds the global values
\* written, as many observation sets as science lines were written, and for
\* each set the ten required values written on its line.
C4_RoundTrip ==
    (pc = "done" /\ HasTarget) =>
        /\ \A K \in WrittenGlobalKeys : parameters[<<K>>] = WrittenGlobal(K)
        /\ Cardinality(ObsKeys(parameters)) = Len(WrittenSets)
        /\ \A i \in 1..Len(WrittenSets) : \A k \in 1..Len(REQUIRED_KEYS) :
              ParsedSet(i)[REQUIRED_KEYS[k]] = Str(Fields(WrittenSets[i])[k + 1])

----------------------------------------------------------------------------
(* Nights with several standard stars *)

\* largest number of science exposures of such a night
MaxObserved == 5

\* the SXD exposures of ScienceKinds and two more standards: one of the mode
\* of t1 whose airmass is nearer to that of t1 than the airmass of HD1, one
\* of another mode
StandardKinds ==
    {k \in ScienceKinds : k.MODE = <<"SXD">>}
    \cup {[TARGET_NAME |-> <<"HD2">>, TARGET_TYPE |-> <<"standard">>,
           MODE |-> <<"SXD">>, FIXED_MOVING |-> <<"fixed">>, AIRMASS |-> 109],
          [TARGET_NAME |-> <<"HD3">>, TARGET_TYPE |-> <<"standard">>,
           MODE |-> <<"Prism">>, FIXED_MOVING |-> <<"fixed">>, AIRMASS |-> 115]}

\* write_driver called with check=True on the records of one night of one
\* observer, the four folders being on disk
InitStandards ==
    /\ optional = OBSERVATION_PARAMETERS_OPTIONAL
    /\ batch_parameters = BATCH_PARAMETERS
    /\ calls = <<>>
    /\ pc = "write"
    /\ \E nf \in 1..MaxFlats, ns \in 1..MaxObserved,
          night \in {n \in Nights : n.INSTRUMENT = <<"spex">>
                                     /\ n.OBSERVER = <<"Burgasser">>} :
          \E sci \in [1..ns -> StandardKinds] :
              dp = NightRecords([i \in 1..nf |-> LampKind(FLAT_NAME)]
                                \o <<LampKind(ARC_NAME)>> \o sci, night, 0)
    /\ args = [data_folder |-> <<"/", "obs", "/", "data", "/">>,
               create_folders |-> FALSE, check |-> TRUE]
    /\ folders = DiskFull
    /\ options = <<>>
    /\ driver_file = <<>>
    /\ driver_param = <<>>
    /\ parameters = <<>>
    /\ exc = ""
    /\ fnum = <<>>
    /\ calf1 = <<>>
    /\ calf2 = <<>>
    /\ cal_sets = <<>>
    /\ files = <<>>

SpecStandards == InitStandards /\ [][NextDriver]_vars

----------------------------------------------------------------------------
(* Claims on the standard of an observation set *)

\* the records named n, and the 'standard' records of their mode
Named(n) == SelectSeq(dp, LAMBDA r : r.TARGET_NAME = n)
Candidates(n) ==
    {j \in 1..Len(dp) : dp[j].TARGET_TYPE = <<"standard">>
                         /\ dp[j].MODE = Named(n)[1].MODE}

\* twice |airmass - median airmass| + |mjd - median mjd| of record j against
\* the records src of a target
Distance2(j, src) ==
    Abs(2 * dp[j].AIRMASS - Median2([i \in 1..Len(src) |-> src[i].AIRMASS]))
    + Abs(2 * dp[j].MJD - Median2([i \in 1..Len(src) |-> src[i].MJD]))

\* the candidates of least distance
Nearest(n) ==
    LET src == Named(n)
    IN  {j \in Candidates(n) :
            \A k \in Candidates(n) : Distance2(j, src) <= Distance2(k, src)}

\* the number of candidates of n that carry the target name of record j
Exposures(n, j) ==
    Cardinality({k \in Candidates(n) : dp[k].TARGET_NAME = dp[j].TARGET_NAME})

TargetNamesOf(d) ==
    {d[j].TARGET_NAME : j \in {k \in 1..Len(d) : d[k].TARGET_TYPE = <<"target">>}}

\* the target n has no standard of its mode, or every nearest one has a
\* name with fewer than 2 exposures
NoUsableStandard(n) ==
    \A j \in Nearest(n) : Exposures(n, j) < 2

\* C17: when write_driver and read_driver have completed, every target
\* has its entry, and the entry of a target without a standard of its mode,
\* or whose chosen standard has fewer than 2 file numbers, has the standard
\* name UNKNOWN and the standard file range 0-0.
C17_UnknownStandard ==
    pc = "done" =>
        /\ {Fields(WrittenSets[i])[4] : i \in 1..Len(WrittenSets)} = TargetNamesOf(dp)
        /\ \A i \in 1..Len(WrittenSets) :
              LET f == Fields(WrittenSets[i])
              IN  NoUsableStandard(f[4]) =>
                      (f[9] = <<"UNKNOWN">> /\ f[11] = <<"0", "-", "0">>)

\* no calibration record has the mode of the target n
NoCalibration(n) ==
    \A j \in 1..Len(dp) :
        dp[j].TARGET_TYPE = <<"calibration">> => dp[j].MODE /= Named(n)[1].MODE

\* a calibration file field that names no calibration set
UnknownFile(x) ==
    \/ Contains(x, "UNKNOWN")
    \/ x \in {<<"flat", "0", "-", "0", ".fits">>, <<"wavecal", "0", "-", "0", ".fits">>}

\* C18: when write_driver and read_driver have completed, every target
\* has its entry, and on the entry of a target whose mode has no
\* calibration record the flat and wavecal fields are the unknown or 0-0
\* sentinel.
C18_UnknownCalibration ==
    pc = "done" =>
        /\ {Fields(WrittenSets[i])[4] : i \in 1..Len(WrittenSets)} = TargetNamesOf(dp)
        /\ \A i \in 1..Len(WrittenSets) :
              LET f == Fields(WrittenSets[i])
              IN  NoCalibration(f[4]) => (UnknownFile(f[7]) /\ UnknownFile(f[8]))

\* the place of a name in the order of Python's str
Place(n) == CHOOSE k \in 1..Len(NameOrder) : NameOrder[k] = n

\* C19: when write_driver and read_driver have completed, the driver file
\* holds one observation-set line per distinct name of the 'target'
\* records, in ascending order of the names, and the returned dictionary
\* holds the i-th line under the key OBS_SET followed by i in 4 digits,
\* and no other observation set.
C19_OneLinePerTarget ==
    pc = "done" =>
        LET ws == WrittenSets
        IN  /\ Len(ws) = Cardinality(TargetNamesOf(dp))
            /\ {Fields(ws[i])[4] : i \in 1..Len(ws)} = TargetNamesOf(dp)
            /\ \A i \in 1..(Len(ws) - 1) :
                  Place(Fields(ws[i])[4]) < Place(Fields(ws[i + 1])[4])
            /\ ObsKeys(parameters)
                  = {<<"OBS_SET", "0", "0", "0">> \o FormatInt(i) : i \in 1..Len(ws)}
            /\ \A i \in 1..Len(ws) :
                  parameters[<<"OBS_SET", "0", "0", "0">> \o FormatInt(i)]
                      .dict[<<"TARGET_NAME">>] = Str(Fields(ws[i])[4])

\* C19 witness: t2 observed before t1, t1 written first and read as
\* OBS_SET0001, t2 as OBS_SET0002.
C19_Witness ==
    /\ pc = "done"
    /\ \E i, j \in 1..Len(dp) :
          i < j /\ dp[i].TARGET_NAME = <<"t2">> /\ dp[j].TARGET_NAME = <<"t1">>
    /\ Len(WrittenSets) = 2
    /\ <<"OBS_SET", "0", "0", "0", "2">> \in DOMAIN parameters
    /\ parameters[<<"OBS_SET", "0", "0", "0", "2">>].dict[<<"TARGET_NAME">>]
          = Str(<<"t2">>)

----------------------------------------------------------------------------
(* The returned dictionary in the hands of the caller *)

\* the lines of the driver files read: two complete entries, an entry cut
\* after 2 and one cut after 9 fields, and a global SCALE_RANGE
SharedLines ==
    {ScienceLine(RequiredFields("SXD")), ScienceLine(RequiredFields("Prism")),
     ScienceLine(SubSeq(RequiredFields("SXD"), 1, 2)),
     ScienceLine(SubSeq(RequiredFields("SXD"), 1, 9)),
     GlobalLine("SCALE_RANGE", <<"1.0", ",", "2.0">>)}

InitShared ==
    /\ optional = OBSERVATION_PARAMETERS_OPTIONAL
    /\ batch_parameters = BATCH_PARAMETERS
    /\ calls = <<>>
    /\ pc = "read"
    /\ \E n \in 0..MaxLines : driver_file \in [1..n -> SharedLines]
    /\ options \in CallerOptions
    /\ parameters = <<>>
    /\ exc = ""
    /\ fnum = <<>>
    /\ calf1 = <<>>
    /\ calf2 = <<>>
    /\ cal_sets = <<>>
    /\ files = <<>>
    /\ dp = <<>>
    /\ driver_param = <<>>
    /\ folders = {}
    /\ args = <<>>

\* v after the statement obj[0] = x on the list object id: a reference to
\* that object shows the new item, every other value is as before
SetFirst(v, id, x) ==
    IF "list" \in DOMAIN v /\ v.id = id
    THEN [v EXCEPT !.list = <<x>> \o Tail(@)]
    ELSE v

\* the dictionary d after obj[0] = x on the list object id
SetFirstIn(d, id, x) == [k \in DOMAIN d |-> SetFirst(d[k], id, x)]

\* the caller runs parameters[s][K] = value for a set s and an optional key K
AssignValue ==
    /\ pc = "done"
    /\ \E s \in ObsKeys(parameters), K \in DOMAIN OBSERVATION_PARAMETERS_OPTIONAL :
          /\ parameters' = [parameters EXCEPT ![s] =
                                DictVal([@.dict EXCEPT ![K] = Str(<<"changed">>)])]
          /\ args' = [target |-> s, key |-> K]
    /\ pc' = "changed"
    /\ UNCHANGED <<segVars, folderVars, driver_file, options, exc, driver_param,
                   folders, optional, batch_parameters, calls>>

\* the caller runs parameters[G] = value for a global key G
AssignGlobal ==
    /\ pc = "done"
    /\ \E G \in DOMAIN parameters \ ObsKeys(parameters) :
          /\ parameters' = [parameters EXCEPT ![G] = Str(<<"changed">>)]
          /\ args' = [target |-> <<"global">>, key |-> G]
    /\ pc' = "changed"
    /\ UNCHANGED <<segVars, folderVars, driver_file, options, exc, driver_param,
                   folders, optional, batch_parameters, calls>>

\* the caller runs parameters[s][K][0] = 0.0 on a list value of a set s, or
\* OBSERVATION_PARAMETERS_OPTIONAL[K][0] = 0.0: the list object changes, and
\* with it what every reference to it shows
ChangeInPlace ==
    /\ pc = "done"
    /\ \E s \in ObsKeys(parameters) \cup {<<"module">>},
          K \in DOMAIN OBSERVATION_PARAMETERS_OPTIONAL :
          \E v \in {IF s = <<"module">> THEN optional[K] ELSE parameters[s].dict[K]} :
              /\ "list" \in DOMAIN v
              /\ parameters' =
                    [k \in DOMAIN parameters |->
                        IF "dict" \in DOMAIN parameters[k]
                        THEN DictVal(SetFirstIn(parameters[k].dict, v.id, "0.0"))
                        ELSE SetFirst(parameters[k], v.id, "0.0")]
              /\ optional' = SetFirstIn(optional, v.id, "0.0")
              /\ args' = [target |-> s, key |-> K]
    /\ pc' = "changed"
    /\ UNCHANGED <<segVars, folderVars, driver_file, options, exc, driver_param,
                   folders, batch_parameters, calls>>

NextShared ==
    ReadDriverReturns \/ ReadDriverRaises \/ AssignValue \/ AssignGlobal
    \/ ChangeInPlace

SpecShared == InitShared /\ [][NextShared]_vars

----------------------------------------------------------------------------
(* Claims on the ownership of the observation sets *)

\* C20: a change the caller makes to a value of one observation set, of the
\* global parameters or of the module defaults, in place or by assignment,
\* leaves every other observation set as it was, and leaves the module
\* defaults as they were unless it was made to them.
C20_NoSharing ==
    [][(pc = "done" /\ pc' = "changed") =>
          /\ \A t \in ObsKeys(parameters) :
                t /= args'.target => parameters'[t] = parameters[t]
          /\ args'.target /= <<"module">> => optional' = optional]_vars

----------------------------------------------------------------------------
(* Claims on the folders of write_driver *)

FolderKeys == {"CALS_FOLDER", "PROC_FOLDER", "QA_FOLDER"}

\* the folder of key x of a call: the one options names, else the one line
\* 590 derives from the data folder
FolderOf(x) ==
    IF <<x>> \in DOMAIN options THEN options[<<x>>].str
    ELSE ParallelFolder(args.data_folder, x)

\* C22: after write_driver, for records with a science target: if the data
\* folder does not exist, or one of the CALS/PROC/QA folders does not exist
\* and create_folders is False, write_driver has raised ValueError and no
\* driver file was written; with create_folders True the three folders exist
\* and the driver file was written.
C22_FolderErrors ==
    (pc /= "write" /\ HasTarget) =>
        IF ~ Exists(args.data_folder, folders)
        THEN exc = "ValueError" /\ driver_file = <<>>
        ELSE IF ~ args.create_folders
        THEN (\E x \in FolderKeys : ~ Exists(FolderOf(x), folders))
                => (exc = "ValueError" /\ driver_file = <<>>)
        ELSE /\ \A x \in FolderKeys : Exists(FolderOf(x), folders)
             /\ driver_file /= <<>>

----------------------------------------------------------------------------
(* Claims on what write_driver returns *)

\* C24: whenever write_driver is called with check=True and returns, it
\* returns the dictionary read_driver produces for the file it wrote, and
\* never None, whatever the records (with or without a record of type
\* 'target').
C24_CheckReturnsParameters ==
    [][(pc = "write" /\ pc' \in {"read", "done"} /\ args.check) =>
          /\ parameters' /= None
          /\ ReadDriverResult(driver_file', <<>>).ok
          /\ parameters' = ReadDriverResult(driver_file', <<>>).val]_vars

----------------------------------------------------------------------------
(* Claims on the file ranges of an observation set *)

\* the file number of record j, read from its file name
NumberOf(j) == ParseInt(LastN(FileStem(dp[j].FILE), NumberWidth(driver_param)))

\* the numbers start..end of a range written as 'start-end'
RangeOf(text) == ParseInt(Split(text, "-")[1])..ParseInt(Split(text, "-")[2])

\* the record np.argmin takes among the nearest standards: the first
ChosenStandard(n) == CHOOSE j \in Nearest(n) : \A k \in Nearest(n) : j <= k

\* C25: on every entry written with a standard file range other than the
\* sentinel 0-0, the file number of the minimum-distance standard record is
\* in the range, and every number of the range is the file number of a
\* standard record with the name of that record.
C25_StandardRun ==
    pc = "done" =>
        \A i \in 1..Len(WrittenSets) :
            LET f == Fields(WrittenSets[i])
            IN  f[11] /= <<"0", "-", "0">> =>
                    LET j == ChosenStandard(f[4])
                    IN  /\ NumberOf(j) \in RangeOf(f[11])
                        /\ \A k \in RangeOf(f[11]) :
                              \E r \in Candidates(f[4]) :
                                  /\ dp[r].TARGET_NAME = dp[j].TARGET_NAME
                                  /\ NumberOf(r) = k

\* C26: on every entry written, every file number of the TARGET_FILES range
\* is the file number of a record with the target name of the entry, also
\* when the records of the target are not contiguous.
C26_TargetRun ==
    (pc \in {"read", "done"} /\ exc = "") =>
        \A i \in 1..Len(WrittenSets) :
            LET f == Fields(WrittenSets[i])
            IN  \A k \in RangeOf(f[6]) :
                    \E r \in 1..Len(dp) :
                        dp[r].TARGET_NAME = f[4] /\ NumberOf(r) = k

----------------------------------------------------------------------------
(* Claims on the calibration set of an observation set *)

\* the entries of CAL_SETS as written to the driver file
CalSetEntries == Split(DropLast(cal_sets), ",")

\* the start file number of the calibration set written as 'start-end'
StartOf(S) == ParseInt(Split(S, "-")[1])

\* twice the median file number of the records named n
MedianNumber2(n) ==
    Median2([i \in 1..Len(Named(n)) |->
                ParseInt(LastN(FileStem(Named(n)[i].FILE), NumberWidth(driver_param)))])

\* the entries of CAL_SETS whose start is nearest to the median file number
\* of the records named n
NearestSets(n) ==
    {k \in 1..Len(CalSetEntries) :
        \A j \in 1..Len(CalSetEntries) :
            Abs(2 * StartOf(CalSetEntries[k]) - MedianNumber2(n))
                <= Abs(2 * StartOf(CalSetEntries[j]) - MedianNumber2(n))}

\* C27: when write_driver and read_driver have completed, every target with
\* calibration records of its mode has its entry, and the flat and wavecal
\* fields of the entry are flat<S>.fits and wavecal<S>.fits for one entry S
\* of CAL_SETS whose start file number is nearest to the median file number
\* of the records of the target.
C27_NearestCalSet ==
    pc = "done" =>
        /\ {Fields(WrittenSets[i])[4] : i \in 1..Len(WrittenSets)} = TargetNamesOf(dp)
        /\ \A i \in 1..Len(WrittenSets) :
              LET f == Fields(WrittenSets[i])
              IN  ~ NoCalibration(f[4]) =>
                      \E k \in NearestSets(f[4]) :
                          /\ f[7] = <<"flat">> \o CalSetEntries[k] \o <<".fits">>
                          /\ f[8] = <<"wavecal">> \o CalSetEntries[k] \o <<".fits">>

\* C27 witness: an entry written with two calibration sets in CAL_SETS, the
\* second being the nearest.
C27_Witness ==
    /\ pc = "done"
    /\ Len(CalSetEntries) = 2
    /\ \E i \in 1..Len(WrittenSets) :
          LET f == Fields(WrittenSets[i])
          IN  /\ ~ NoCalibration(f[4])
              /\ NearestSets(f[4]) = {2}
              /\ f[7] = <<"flat">> \o CalSetEntries[2] \o <<".fits">>

----------------------------------------------------------------------------
(* Claims on the objects write_driver is given *)

----------------------------------------------------------------------------
(* A folder taken through process_folder, write_driver and read_driver *)

\* the exposure number k of a night after the change of instrument: a lamp
\* exposure (kind "flat" or "arc") or a science exposure of the target name,
\* taken 5 minutes after the exposure before it, in beam A and B in turn;
\* the number has 5 digits in the file name
NumberedFile(kind, name, k) ==
    [(IF kind = "sci"
      THEN ScienceFile([name |-> name, beam |-> IF k % 2 = 1 THEN "A" ELSE "B",
                        pos |-> IF k % 2 = 1 THEN 0 ELSE 12], 5 * k)
      ELSE LampFile(kind))
        EXCEPT !.time = 5 * k,
               !.file = FileName(IF kind = "sci" THEN "spc" ELSE kind, k, 5)]

\* the files of a night: nf flats, na arcs, then the science exposures of
\* the target names
FolderFiles(nf, na, names) ==
    [i \in 1..nf |-> NumberedFile("flat", "", i)]
    \o [i \in 1..na |-> NumberedFile("arc", "", nf + i)]
    \o [i \in 1..Len(names) |-> NumberedFile("sci", names[i], nf + na + i)]

\* the DataFrame process_folder returned, in the columns write_driver reads;
\* OBSERVER and PROGRAM are the header values the files share, the airmass
\* is that of one pointing
Frame(rows, night) ==
    [i \in 1..Len(rows) |->
        [FILE |-> rows[i].file, TARGET_NAME |-> <<rows[i].name>>,
         TARGET_TYPE |-> <<rows[i].type>>, MODE |-> <<rows[i].mode>>,
         FIXED_MOVING |-> <<rows[i].fm>>, AIRMASS |-> 100, MJD |-> rows[i].mjd,
         INSTRUMENT |-> <<rows[i].instrument>>, UT_DATE |-> UT_DATE,
         OBSERVER |-> night.OBSERVER, PROGRAM |-> night.PROGRAM]]

\* the folder /obs/data holds the files of a night, listed by glob in the
\* order of their numbers or in the reverse order
InitEndToEnd ==
    /\ optional = OBSERVATION_PARAMETERS_OPTIONAL
    /\ batch_parameters = BATCH_PARAMETERS
    /\ calls = <<>>
    /\ pc = "start"
    /\ \E nf \in 1..MaxFlats, na \in 0..MaxFlats, ns \in 1..MaxExposures,
          rev \in BOOLEAN :
          \E names \in [1..ns -> TargetNames] :
              LET fs == FolderFiles(nf, na, names)
              IN  files = IF rev THEN [i \in 1..Len(fs) |-> fs[Len(fs) + 1 - i]]
                          ELSE fs
    /\ \E night \in {n \in Nights : n.INSTRUMENT = <<"spex">>
                                     /\ n.OBSERVER = <<"Burgasser">>} :
          args = [folder |-> <<"/", "obs", "/", "data">>, night |-> night]
    /\ folders = DiskFull
    /\ dp = <<>>
    /\ fnum = <<>>
    /\ calf1 = <<>>
    /\ calf2 = <<>>
    /\ cal_sets = <<>>
    /\ driver_file = <<>>
    /\ options = <<>>
    /\ parameters = <<>>
    /\ exc = ""
    /\ driver_param = <<>>

\* the caller hands the DataFrame process_folder returned to write_driver,
\* with the folder it gave process_folder, written with or without a final
\* '/', as data_folder (lines 537-538 and 1214-1223)
CallWriteDriver ==
    /\ pc = "done"
    /\ dp /= <<>>
    /\ "fm" \in DOMAIN dp[1]
    /\ dp' = Frame(dp, args.night)
    /\ \E slash \in {<<>>, <<"/">>}, check \in BOOLEAN :
          args' = [data_folder |-> args.folder \o slash, create_folders |-> FALSE,
                   check |-> check]
    /\ pc' = "write"
    /\ UNCHANGED <<files, segVars, readVars, driver_param, folders, optional,
                   batch_parameters, calls>>

NextEndToEnd ==
    \/ ProcessFolderReturns
    \/ ProcessFolderRaises
    \/ CallWriteDriver
    \/ WriteDriverReturns
    \/ WriteDriverRaises
    \/ ReadDriverReturns
    \/ ReadDriverRaises

SpecEndToEnd == InitEndToEnd /\ [][NextEndToEnd]_vars

\* the folder of 6 files: flats 1-2, arcs 3-4, two science exposures 5-6 of
\* one target name
SixFiles ==
    \E n \in TargetNames :
        LET fs == FolderFiles(2, 2, <<n, n>>)
        IN  files \in {fs, [i \in 1..6 |-> fs[7 - i]]}

\* C23: for the folder of 6 files, once process_folder, write_driver and
\* read_driver have completed, the dictionary returned has CAL_SETS '1-4'
\* and exactly one observation set, whose TARGET_FILES is '5-6'.
C23_EndToEnd ==
    (pc = "done" /\ parameters /= <<>> /\ SixFiles) =>
        /\ parameters[<<"CAL_SETS">>] = Str(<<"1", "-", "4">>)
        /\ Cardinality(ObsKeys(parameters)) = 1
        /\ \A s \in ObsKeys(parameters) :
              parameters[s].dict[<<"TARGET_FILES">>] = Str(<<"5", "-", "6">>)

\* C23 witness: the three calls have completed on the folder of 6 files
\* listed in reverse order, and one observation set was returned.
C23_Witness ==
    /\ pc = "done"
    /\ SixFiles
    /\ files[1].kind = "sci"
    /\ <<"OBS_SET", "0", "0", "0", "1">> \in DOMAIN parameters

----------------------------------------------------------------------------
(* batch_reduce: the calls it makes to the reduction steps *)

\* extract_filestring(s, 'index') of pyspextool.io.files: the numbers of a
\* file range 'start-end' (inclusive), or of a comma-joined list of such
\* ranges and single numbers
RECURSIVE ExtractGroups(_)
ExtractGroups(groups) ==
    IF Len(groups) = 0 THEN <<>>
    ELSE LET g == Head(groups)
             a == ParseInt(Split(g, "-")[1])
             b == ParseInt(Split(g, "-")[Len(Split(g, "-"))])
         IN  [i \in 1..(b - a + 1) |-> a + i - 1] \o ExtractGroups(Tail(groups))
ExtractFilestring(s) == ExtractGroups(Split(s, ","))

\* make_full_path(DATA_FOLDER, cs, indexinfo=indexinfo) of pyspextool.io.files:
\* one file of the prefix for every number of the range cs; a file of the
\* data folder is held as its prefix and its number
MakeFullPath(prefix, cs) ==
    [i \in 1..Len(ExtractFilestring(cs)) |->
        [prefix |-> prefix, number |-> ExtractFilestring(cs)[i]]]

\* a call to a reduction step: the function called, the calibration set or
\* observation set it is made for, the part of the set ("target",
\* "standard", or "" for a calibration set), the file prefix and the files
\* given (as a range text or as a list of numbers), the flat and wavecal
\* files given, and the name of the output
Call(op, key, part, prefix, fs, index, flat, wavecal, out) ==
    [op |-> op, set |-> key, part |-> part, prefix |-> prefix, files |-> fs,
     index |-> index, flat |-> flat, wavecal |-> wavecal, out |-> out]

\* line 1054
SetupCall(par) ==
    Call("pyspextool_setup", <<>>, "", par[<<"INSTRUMENT">>].str, <<>>, <<>>, <<>>,
         <<>>, <<>>)

\* lines 1064-1065 and 1074-1075: the files of the range cs that exist
InputFiles(prefix, cs, disk) ==
    SelectSeq(MakeFullPath(prefix, cs), LAMBDA f : f \in disk)

\* lines 1067-1068 and 1078-1079: the range of the numbers of the files found
FileString(input) ==
    RangeText(NanMin([i \in 1..Len(input) |-> input[i].number]),
              NanMax([i \in 1..Len(input) |-> input[i].number]))

\* lines 1060-1090 with make_wavecal given the flat of the first calibration
\* set of CAL_SETS (a mutant of CalibrationSet)
CalibrationSetFirstFlat(cs, par, disk) ==
    LET flats == InputFiles(par[<<"FLAT_FILE_PREFIX">>].str, cs, disk)
        arcs == InputFiles(par[<<"ARC_FILE_PREFIX">>].str, cs, disk)
        first == Split(par[<<"CAL_SETS">>].str, ",")[1]
        flat == Call("make_flat", cs, "", par[<<"FLAT_FILE_PREFIX">>].str,
                     FileString(flats), <<>>, <<>>, <<>>, <<"flat">> \o cs)
        wavecal == Call("make_wavecal", cs, "", par[<<"ARC_FILE_PREFIX">>].str,
                        FileString(arcs), <<>>, <<"flat">> \o first \o <<".fits">>,
                        <<>>, <<"wavecal">> \o cs)
    IN  IF Len(flats) = 0 THEN Outcome("ValueError", <<>>)
        ELSE IF Len(arcs) = 0 THEN Outcome("ValueError", <<flat>>)
        ELSE Outcome("", <<flat, wavecal>>)

\* lines 1060-1090 for the calibration set cs: make_flat, then make_wavecal
\* with the flat of the set; ValueError when no flat file, or no arc file, of
\* the set is found
CalibrationSet(cs, par, disk) ==
    LET flats == InputFiles(par[<<"FLAT_FILE_PREFIX">>].str, cs, disk)
        arcs == InputFiles(par[<<"ARC_FILE_PREFIX">>].str, cs, disk)
        flat == Call("make_flat", cs, "", par[<<"FLAT_FILE_PREFIX">>].str,
                     FileString(flats), <<>>, <<>>, <<>>, <<"flat">> \o cs)
        wavecal == Call("make_wavecal", cs, "", par[<<"ARC_FILE_PREFIX">>].str,
                        FileString(arcs), <<>>, <<"flat">> \o cs \o <<".fits">>,
                        <<>>, <<"wavecal">> \o cs)
    IN  IF Len(flats) = 0 THEN Outcome("ValueError", <<>>)
        ELSE IF Len(arcs) = 0 THEN Outcome("ValueError", <<flat>>)
        ELSE Outcome("", <<flat, wavecal>>)

\* lines 1059-1090: the calibration sets in turn; a raise ends the run
RECURSIVE CalibrationSets(_, _, _)
CalibrationSets(sets, par, disk) ==
    IF Len(sets) = 0 THEN Outcome("", <<>>)
    ELSE LET c == CalibrationSet(Head(sets), par, disk)
             rest == CalibrationSets(Tail(sets), par, disk)
         IN  IF c.exc /= "" THEN c
             ELSE Outcome(rest.exc, c.val \o rest.val)

\* line 1094: the keys of the observation sets, in the order of the
\* dictionary, which is the order read_driver inserted them in (line 476)
SciKeys(par) ==
    SelectSeq([i \in 1..Cardinality(DOMAIN par) |-> ObsSetKey(i)],
              LAMBDA k : k \in DOMAIN par)

\* lines 1093, 1099-1101: the observation set k, with the global values it
\* does not hold itself
Spar(par, k) ==
    Update([g \in {x \in DOMAIN par : x[1] /= OBSERVATION_SET_KEYWORD} |-> par[g]],
           par[k].dict)

\* lines 1112-1132 and 1147-1167: the steps between load_image and
\* do_all_steps
ExtractionSteps ==
    <<"set_extraction_type", "make_spatial_profiles", "locate_aperture_positions",
      "select_orders", "trace_apertures", "define_aperture_parameters",
      "extract_apertures">>

\* lines 1107-1137 (target) and 1142-1172 (standard): load_image of the
\* first two files with the given prefix, the extraction steps, then
\* do_all_steps of the remaining files with SCIENCE_FILE_PREFIX
Extraction(k, part, spar, prefix, filestring) ==
    LET idx == ExtractFilestring(filestring)
        first == SubSeq(idx, 1, IF Len(idx) < 2 THEN Len(idx) ELSE 2)
        rest == SubSeq(idx, 3, Len(idx))
    IN  <<Call("load_image", k, part, prefix, <<>>, first,
               spar[<<"FLAT_FILE">>].str, spar[<<"WAVECAL_FILE">>].str, <<>>)>>
        \o [i \in 1..Len(ExtractionSteps) |->
               Call(ExtractionSteps[i], k, part, <<>>, <<>>, <<>>, <<>>, <<>>, <<>>)]
        \o (IF Len(rest) > 0
            THEN <<Call("do_all_steps", k, part,
                        spar[<<"SCIENCE_FILE_PREFIX">>].str,
                        RangeText(NanMin(rest), NanMax(rest)), <<>>, <<>>, <<>>,
                        <<>>)>>
            ELSE <<>>)

\* lines 1178-1191: the spectra of the target, then of the standard, combined
Combination(k, spar) ==
    <<Call("combine_spectra", k, "target", <<"spectra">>,
           spar[<<"TARGET_FILES">>].str, <<>>, <<>>, <<>>,
           spar[<<"COMBINED_FILE_PREFIX">>].str \o spar[<<"TARGET_FILES">>].str),
      Call("combine_spectra", k, "standard", <<"spectra">>,
           spar[<<"STD_FILES">>].str, <<>>, <<>>, <<>>,
           spar[<<"COMBINED_FILE_PREFIX">>].str \o spar[<<"STD_FILES">>].str)>>

\* lines 1098-1200 for the observation sets keys, in turn
RECURSIVE ReduceSets(_, _)
ReduceSets(par, keys) ==
    IF Len(keys) = 0 THEN <<>>
    ELSE LET k == Head(keys)
             spar == Spar(par, k)
         IN  Extraction(k, "target", spar, spar[<<"TARGET_PREFIX">>].str,
                        spar[<<"TARGET_FILES">>].str)
             \o Extraction(k, "standard", spar, spar[<<"SCIENCE_FILE_PREFIX">>].str,
                           spar[<<"STD_FILES">>].str)
             \o Combination(k, spar)
             \o ReduceSets(par, Tail(keys))

\* lines 1051-1203 with the loop over the observation sets put before the
\* loop over the calibration sets (a mutant of BatchReduceResult)
BatchReduceResultScienceFirst(par, disk) ==
    LET cal == CalibrationSets(Split(par[<<"CAL_SETS">>].str, ","), par, disk)
    IN  Outcome(cal.exc, <<SetupCall(par)>> \o ReduceSets(par, SciKeys(par))
                         \o cal.val)

\* batch_reduce(par) with the files disk in the data folder: the exception
\* it raises ("" if none) and the calls it makes, in order (lines 1051-1203)
BatchReduceResult(par, disk) ==
    LET cal == CalibrationSets(Split(par[<<"CAL_SETS">>].str, ","), par, disk)
    IN  IF cal.exc /= "" THEN Outcome(cal.exc, <<SetupCall(par)>> \o cal.val)
        ELSE Outcome("", <<SetupCall(par)>> \o cal.val
                         \o ReduceSets(par, SciKeys(par)))

\* the call batch_reduce makes after the calls made, r being its outcome
NextCall(r, made) == r.val[Len(made) + 1]

\* lines 1051-1054: VERBOSE is set in the dictionary given, and the
\* instrument is set up
Setup ==
    /\ pc = "reduce"
    /\ calls = <<>>
    /\ calls' = <<SetupCall(parameters)>>
    /\ parameters' = Update(parameters, [k \in {<<"VERBOSE">>} |-> Bool(TRUE)])
    /\ UNCHANGED <<pc, segVars, folderVars, driver_file, options, exc, writeVars,
                   optional, batch_parameters>>

\* lines 1059-1090: the next calibration step
Calibrate ==
    /\ pc = "reduce"
    /\ calls /= <<>>
    /\ \E r \in {BatchReduceResult(parameters, files)} :
          /\ Len(calls) < Len(r.val)
          /\ NextCall(r, calls).op \in {"make_flat", "make_wavecal"}
          /\ calls' = Append(calls, NextCall(r, calls))
    /\ UNCHANGED <<pc, segVars, folderVars, readVars, writeVars, optional,
                   batch_parameters>>

\* lines 1098-1172: the next extraction step of an observation set, which
\* holds the global values from line 1101 on
Extract ==
    /\ pc = "reduce"
    /\ calls /= <<>>
    /\ \E r \in {BatchReduceResult(parameters, files)} :
          /\ Len(calls) < Len(r.val)
          /\ \E c \in {NextCall(r, calls)} :
                /\ c.op \in {"load_image", "do_all_steps"}
                            \cup {ExtractionSteps[i] : i \in 1..Len(ExtractionSteps)}
                /\ calls' = Append(calls, c)
                /\ parameters' = [parameters EXCEPT
                                     ![c.set] = DictVal(Spar(parameters, c.set))]
    /\ UNCHANGED <<pc, segVars, folderVars, driver_file, options, exc, writeVars,
                   optional, batch_parameters>>

\* lines 1175-1191: the next combination step
Combine ==
    /\ pc = "reduce"
    /\ calls /= <<>>
    /\ \E r \in {BatchReduceResult(parameters, files)} :
          /\ Len(calls) < Len(r.val)
          /\ NextCall(r, calls).op = "combine_spectra"
          /\ calls' = Append(calls, NextCall(r, calls))
    /\ UNCHANGED <<pc, segVars, folderVars, readVars, writeVars, optional,
                   batch_parameters>>

\* lines 1095-1096 and 1203: batch_reduce returns
BatchReduceReturns ==
    /\ pc = "reduce"
    /\ calls /= <<>>
    /\ \E r \in {BatchReduceResult(parameters, files)} :
          /\ Len(calls) = Len(r.val)
          /\ r.exc = ""
    /\ pc' = "done"
    /\ UNCHANGED <<segVars, folderVars, readVars, writeVars, optional,
                   batch_parameters, calls>>

\* lines 1066 and 1076: batch_reduce raises
BatchReduceRaises ==
    /\ pc = "reduce"
    /\ calls /= <<>>
    /\ \E r \in {BatchReduceResult(parameters, files)} :
          /\ Len(calls) = Len(r.val)
          /\ r.exc /= ""
          /\ exc' = r.exc
    /\ pc' = "raised"
    /\ UNCHANGED <<segVars, folderVars, driver_file, options, parameters, writeVars,
                   optional, batch_parameters, calls>>

NextReduce ==
    \/ Setup
    \/ Calibrate
    \/ Extract
    \/ Combine
    \/ BatchReduceReturns
    \/ BatchReduceRaises

\* the lamp exposures of a night, in the order they were taken
ReduceLamps ==
    {<<FLAT_NAME, FLAT_NAME, ARC_NAME>>, <<FLAT_NAME, ARC_NAME, ARC_NAME>>,
     <<FLAT_NAME, ARC_NAME, FLAT_NAME, ARC_NAME>>}

\* the file prefixes the exposures of the standards may carry
StandardPrefixes == {"spc", "std"}

\* the records d, the files of the standards carrying the prefix
WithStandardPrefix(d, prefix) ==
    [i \in 1..Len(d) |->
        IF d[i].TARGET_TYPE = <<"standard">>
        THEN [d[i] EXCEPT !.FILE = <<prefix>> \o Tail(@)]
        ELSE d[i]]

\* the files of the records d, as they lie in the data folder
DiskOf(d) ==
    {[prefix |-> <<d[i].FILE[1]>>,
      number |-> ParseInt(SubSeq(FileStem(d[i].FILE), 2, Len(FileStem(d[i].FILE))))] :
        i \in 1..Len(d)}

\* the driver file write_driver writes for the records d of /obs/data/
DriverOf(d) ==
    WriteDriverResult(d, [data_folder |-> <<"/", "obs", "/", "data", "/">>,
                          create_folders |-> FALSE, check |-> FALSE],
                      <<>>, DiskFull)

\* batch_reduce is called on the dictionary read_driver returned for the
\* driver file of a night, whose files lie in the data folder
InitReduce ==
    /\ optional = OBSERVATION_PARAMETERS_OPTIONAL
    /\ batch_parameters = BATCH_PARAMETERS
    /\ calls = <<>>
    /\ pc = "reduce"
    /\ \E lamps \in ReduceLamps, ns \in 0..MaxScience, gap \in Gaps,
          prefix \in StandardPrefixes :
          \E sci \in [1..ns -> ScienceKinds] :
              /\ dp = WithStandardPrefix(
                         NightRecords([i \in 1..Len(lamps) |-> LampKind(lamps[i])]
                                      \o sci,
                                      CHOOSE n \in Nights : n.width = 5, gap),
                         prefix)
    /\ \E r \in {DriverOf(dp)} :
          /\ r.exc = ""
          /\ driver_file = r.driver_file
          /\ ReadDriverResult(r.driver_file, <<>>).ok
          /\ parameters = ReadDriverResult(r.driver_file, <<>>).val
    /\ files = DiskOf(dp)
    /\ folders = DiskFull
    /\ args = [verbose |-> TRUE]
    /\ options = <<>>
    /\ driver_param = <<>>
    /\ exc = ""
    /\ fnum = <<>>
    /\ calf1 = <<>>
    /\ calf2 = <<>>
    /\ cal_sets = <<>>

SpecReduce == InitReduce /\ [][NextReduce]_vars

----------------------------------------------------------------------------
(* Claims on the order and the arguments of the calls of batch_reduce *)

\* the entries of CAL_SETS of the dictionary given
GivenSets == Split(parameters[<<"CAL_SETS">>].str, ",")

\* the positions of the calls made for a calibration set, for an observation
\* set, and by the function op
CalPositions == {i \in 1..Len(calls) : calls[i].op \in {"make_flat", "make_wavecal"}}
SciPositions ==
    {i \in 1..Len(calls) : calls[i].set /= <<>>
                             /\ calls[i].set[1] = OBSERVATION_SET_KEYWORD}
PositionsOf(op) == {i \in 1..Len(calls) : calls[i].op = op}

\* the number nnnn of the key OBS_SETnnnn
Ordinal(k) == ParseInt(Tail(k))

\* the data folder holds no file of the prefix with a number of the range cs
NoneFound(prefix, cs) ==
    \A f \in files : f.prefix = prefix => f.number \notin RangeOf(cs)

\* a calibration set of CAL_SETS has no flat file or no arc file
LampsMissing ==
    \E i \in 1..Len(GivenSets) :
        \/ NoneFound(parameters[<<"FLAT_FILE_PREFIX">>].str, GivenSets[i])
        \/ NoneFound(parameters[<<"ARC_FILE_PREFIX">>].str, GivenSets[i])

\* C21: at every point of batch_reduce, the flats made so far are those of
\* the first entries of CAL_SETS, in that order, each followed at once by
\* the wavecal of its set; every calibration call precedes every call made
\* for an observation set; the observation sets are taken one after the
\* other in the order of their keys; when a calibration set has no flat file
\* or no arc file, no call is made for an observation set, and the run ends
\* with ValueError; when batch_reduce returns, every calibration set and
\* every observation set has been processed.
C21_DispatchOrder ==
    pc \in {"reduce", "done", "raised"} =>
        LET flats == SelectSeq(calls, LAMBDA c : c.op = "make_flat")
        IN  /\ Len(flats) <= Len(GivenSets)
            /\ \A i \in 1..Len(flats) : flats[i].set = GivenSets[i]
            /\ \A i \in PositionsOf("make_flat") :
                  i < Len(calls) =>
                      (calls[i + 1].op = "make_wavecal" /\ calls[i + 1].set = calls[i].set)
            /\ \A i \in PositionsOf("make_wavecal") :
                  calls[i - 1].op = "make_flat" /\ calls[i - 1].set = calls[i].set
            /\ \A i \in CalPositions : \A j \in SciPositions : i < j
            /\ \A i, j \in SciPositions :
                  i < j => Ordinal(calls[i].set) <= Ordinal(calls[j].set)
            /\ LampsMissing => (SciPositions = {} /\ pc /= "done")
            /\ pc = "raised" => (exc = "ValueError" /\ LampsMissing)
            /\ pc = "done" =>
                  /\ Len(flats) = Len(GivenSets)
                  /\ Cardinality(PositionsOf("make_wavecal")) = Len(GivenSets)
                  /\ {calls[i].set : i \in SciPositions} = ObsKeys(parameters)

\* C21 witness: batch_reduce has returned after the steps of two calibration
\* sets and two observation sets.
C21_Witness ==
    /\ pc = "done"
    /\ Len(GivenSets) = 2
    /\ Cardinality(PositionsOf("make_wavecal")) = 2
    /\ Cardinality({calls[i].set : i \in SciPositions}) = 2

\* the observation sets of the dictionary given
GivenObs == ObsKeys(parameters)

\* C28: every make_wavecal call of a calibration set cs follows a make_flat
\* call of cs whose output is named flat<cs>, is given the flat file
\* flat<cs>.fits and names its output wavecal<cs>; every observation set
\* carries the FLAT_FILE flat<S>.fits and the WAVECAL_FILE wavecal<S>.fits of
\* one entry S of CAL_SETS, and once batch_reduce has returned these are the
\* outputs of the make_flat and make_wavecal calls of S, with .fits.
C28_Artifacts ==
    pc \in {"reduce", "done", "raised"} =>
        /\ \A j \in PositionsOf("make_wavecal") :
              /\ \E i \in 1..(j - 1) :
                    /\ calls[i].op = "make_flat"
                    /\ calls[i].set = calls[j].set
                    /\ calls[i].out = <<"flat">> \o calls[j].set
              /\ calls[j].flat = <<"flat">> \o calls[j].set \o <<".fits">>
              /\ calls[j].out = <<"wavecal">> \o calls[j].set
        /\ \A s \in GivenObs :
              \E n \in 1..Len(GivenSets) :
                  /\ parameters[s].dict[<<"FLAT_FILE">>]
                        = Str(<<"flat">> \o GivenSets[n] \o <<".fits">>)
                  /\ parameters[s].dict[<<"WAVECAL_FILE">>]
                        = Str(<<"wavecal">> \o GivenSets[n] \o <<".fits">>)
                  /\ pc = "done" =>
                        /\ \E i \in PositionsOf("make_flat") :
                              /\ calls[i].set = GivenSets[n]
                              /\ Str(calls[i].out \o <<".fits">>)
                                    = parameters[s].dict[<<"FLAT_FILE">>]
                        /\ \E i \in PositionsOf("make_wavecal") :
                              /\ calls[i].set = GivenSets[n]
                              /\ Str(calls[i].out \o <<".fits">>)
                                    = parameters[s].dict[<<"WAVECAL_FILE">>]

\* C28 witness: batch_reduce has returned after two calibration sets, and
\* an observation set carries the flat of the second.
C28_Witness ==
    /\ pc = "done"
    /\ Len(GivenSets) = 2
    /\ \E s \in GivenObs :
          parameters[s].dict[<<"FLAT_FILE">>]
              = Str(<<"flat">> \o GivenSets[2] \o <<".fits">>)
    /\ \E i \in PositionsOf("make_wavecal") :
          calls[i].flat = <<"flat">> \o GivenSets[2] \o <<".fits">>

\* the numbers of the files the calls at the positions P load
Loaded(P) ==
    UNION {IF calls[i].op = "load_image"
           THEN {calls[i].index[n] : n \in 1..Len(calls[i].index)}
           ELSE RangeOf(calls[i].files) : i \in P}

\* C30: once batch_reduce has returned, for every observation set the
\* load_image and do_all_steps calls of the target carry TARGET_PREFIX and
\* load the files of TARGET_FILES, those of the standard carry STD_PREFIX and
\* load the files of STD_FILES, the calls of the target precede those of the
\* standard, and both precede the combine_spectra calls of the set.
C30_SetPrefixes ==
    pc = "done" =>
        \A s \in GivenObs :
            LET loads(part) ==
                    {i \in PositionsOf("load_image") \cup PositionsOf("do_all_steps") :
                        calls[i].set = s /\ calls[i].part = part}
                steps(part) ==
                    {i \in 1..Len(calls) :
                        /\ calls[i].set = s
                        /\ calls[i].part = part
                        /\ calls[i].op /= "combine_spectra"}
                combines == {i \in PositionsOf("combine_spectra") : calls[i].set = s}
                d == parameters[s].dict
            IN  /\ \A i \in loads("target") : calls[i].prefix = d[<<"TARGET_PREFIX">>].str
                /\ \A i \in loads("standard") : calls[i].prefix = d[<<"STD_PREFIX">>].str
                /\ Loaded(loads("target")) = RangeOf(d[<<"TARGET_FILES">>].str)
                /\ Loaded(loads("standard")) = RangeOf(d[<<"STD_FILES">>].str)
                /\ \A i \in steps("target") : \A j \in steps("standard") : i < j
                /\ \A i \in steps("target") \cup steps("standard") :
                      \A j \in combines : i < j
                /\ Cardinality(combines) = 2

====
